---- MODULE Spec2Model ----
(***************************************************************************)
(* Penrose-DIY: pentagrid -> intersections -> rhombus tiles -> adjacency   *)
(* graph -> breadth-first alignment, with the interactive layer of         *)
(* sketch.js (draw loop, drag and drop, align/reset button, trace box).    *)
(*                                                                         *)
(* Arithmetic.  The JavaScript works on IEEE doubles; here every length is *)
(* an integer number of 1/UNIT pixels and an angle is an integer number of *)
(* PI/5 (36 degrees).  cos and sin are table look-ups scaled by UNIT; the  *)
(* table is antisymmetric under a half turn, so "edge parallel to the      *)
(* normal of a grid line" is an exact zero dot product, as it is in real   *)
(* arithmetic.  All table entries are even, so SCALE/2 * cos is integral   *)
(* and the average of two edge offsets is exact.                           *)
(***************************************************************************)
EXTENDS Integers, Sequences, FiniteSets, TLC

VARIABLES
    GAMMAS,                   \* sketch.js:29   gamma vector, in hundredths
    gridLines,                \* sketch.js:32   five families of grid lines
    intersections,            \* sketch.js:34   crossings of lines of two families
    rhombPoints,              \* sketch.js:33   tiles, indexed 0..n-1
    rhombGraph,               \* sketch.js:39   index -> adjacency list
    selectedRhomb,            \* sketch.js:35   index of the grabbed tile or NULL
    isAligned,                \* sketch.js:45
    showTrace,                \* sketch.js:48
    alignmentQueue,           \* sketch.js:52
    isAligning,               \* sketch.js:53
    currentlyAligning,        \* sketch.js:54
    currentOffset,            \* sketch.js:55
    animationStartPositions,  \* sketch.js:56
    visualizationProgress,    \* sketch.js:58
    width,                    \* p5 canvas size set by createCanvas (sketch.js:66)
    looping,                  \* p5 draw loop still scheduled
    dragCount,                \* number of mouseDragged events so far
    lastOp,                   \* history: the handler that ran last
    seedSet,                  \* history: seeds of the current / last run
    runStart,                 \* history: rhombPoints when the run was started
    draggedInRun              \* history: tiles dragged since the run started

vars == <<GAMMAS, gridLines, intersections,
          rhombPoints, rhombGraph, selectedRhomb, isAligned, showTrace,
          alignmentQueue, isAligning, currentlyAligning, currentOffset,
          animationStartPositions, visualizationProgress, width, looping,
          dragCount, lastOp, seedSet, runStart, draggedInRun>>

\* null for an index, for currentOffset and for animationStartPositions
NULL == -1
NullOffset == [null |-> TRUE]
NullPositions == << >>

(***************************************************************************)
(* Program constants                                                       *)
(***************************************************************************)
NUM_LINES == 1
SCALE == 55
EPSILON_INV == 1000
RIGHT_ANGLE_TOL_INV == 57296

(***************************************************************************)
(* Bounds of the model                                                     *)
(***************************************************************************)
visualizationFrames == 2
MaxDrags == 1

(***************************************************************************)
(* Fixed-point trigonometry: angle m is m * PI/5                           *)
(***************************************************************************)
CosTab == <<100, 80, 30, -30, -80, -100, -80, -30, 30, 80>>
SinTab == <<0, 58, 96, 96, 58, 0, -58, -96, -96, -58>>

cos(m) == CosTab[(m % 10) + 1]
sin(m) == SinTab[(m % 10) + 1]

UNIT == cos(0)

Abs(x) == IF x < 0 THEN -x ELSE x

RECURSIVE SqrtSearch(_, _, _)
SqrtSearch(n, lo, hi) ==
    IF lo >= hi THEN lo
    ELSE LET mid == (lo + hi + 1) \div 2
         IN  IF mid * mid <= n THEN SqrtSearch(n, mid, hi)
                               ELSE SqrtSearch(n, lo, mid - 1)

\* floor of Math.sqrt(n) for 0 <= n < 2^31
Sqrt(n) == SqrtSearch(n, 0, 46340)

(***************************************************************************)
(* Tilings the generator is run on: gammas in hundredths (they sum to 1),  *)
(* line spacing and canvas size in pixels.  The first gamma vector is the  *)
(* one of initializeGammas; spacing and canvas are scaled down from 450    *)
(* and 800 so that each tiling has four tiles: a path of four, a triangle  *)
(* with an isolated last tile, an isolated tile 0 with a triangle.         *)
(***************************************************************************)
Configs ==
    { [GAMMAS |-> <<17, 21, 28, 30, 4>>, SPACING |-> 100, GRID_SIZE |-> 23],
      [GAMMAS |-> <<17, 3, 34, 40, 6>>,  SPACING |-> 100, GRID_SIZE |-> 31],
      [GAMMAS |-> <<32, 31, 4, 27, 6>>,  SPACING |-> 100, GRID_SIZE |-> 29] }

(***************************************************************************)
(* Pentagrid generator                                                     *)
(***************************************************************************)
findGridFamily(k, cfg) ==
    IF k < 0 \/ k >= 5 THEN << >>
    ELSE
      LET angle    == 2 * k
          cosAngle == cos(angle)
          sinAngle == sin(angle)
      IN  [i \in 1..(2 * NUM_LINES + 1) |->
             LET n == i - NUM_LINES - 1
                 d == ((n * 100 + cfg.GAMMAS[k + 1]) * cfg.SPACING) \div 100
             IN  [a |-> sinAngle, b |-> -cosAngle, c |-> d,
                  angle |-> angle, family |-> k, n |-> n,
                  x1 |-> -cfg.GRID_SIZE * sinAngle + cosAngle * d,
                  y1 |-> cfg.GRID_SIZE * cosAngle + sinAngle * d,
                  x2 |-> cfg.GRID_SIZE * sinAngle + cosAngle * d,
                  y2 |-> -cfg.GRID_SIZE * cosAngle + sinAngle * d]]

generateGridFamilies(cfg) == [f \in 1..5 |-> findGridFamily(f - 1, cfg)]

(***************************************************************************)
(* Intersection finder                                                     *)
(***************************************************************************)
NoIntersection == [hit |-> FALSE]

\* variant that treats the two segments as unbounded lines
intersectLines(line1, line2) ==
    LET x1 == line1.x1  y1 == line1.y1  x2 == line1.x2  y2 == line1.y2
        x3 == line2.x1  y3 == line2.y1  x4 == line2.x2  y4 == line2.y2
        denominator == (y4 - y3) * (x2 - x1) - (x4 - x3) * (y2 - y1)
        numA == (x4 - x3) * (y1 - y3) - (y4 - y3) * (x1 - x3)
        sgn  == IF denominator < 0 THEN -1 ELSE 1
        den  == sgn * denominator
        na   == sgn * numA
        ua   == IF den >= 1000 THEN na \div (den \div 1000) ELSE (na * 1000) \div den
    IN  IF (x1 = x2 /\ y1 = y2) \/ (x3 = x4 /\ y3 = y4) THEN NoIntersection
        ELSE IF denominator = 0 THEN NoIntersection
        ELSE [hit |-> TRUE,
              x |-> x1 + (ua * (x2 - x1)) \div 1000,
              y |-> y1 + (ua * (y2 - y1)) \div 1000,
              line1 |-> line1, line2 |-> line2]

intersect(line1, line2) ==
    LET x1 == line1.x1  y1 == line1.y1  x2 == line1.x2  y2 == line1.y2
        x3 == line2.x1  y3 == line2.y1  x4 == line2.x2  y4 == line2.y2
        denominator == (y4 - y3) * (x2 - x1) - (x4 - x3) * (y2 - y1)
        numA == (x4 - x3) * (y1 - y3) - (y4 - y3) * (x1 - x3)
        numB == (x2 - x1) * (y1 - y3) - (y2 - y1) * (x1 - x3)
        sgn  == IF denominator < 0 THEN -1 ELSE 1
        den  == sgn * denominator
        na   == sgn * numA
        nb   == sgn * numB
        \* ua in thousandths
        ua   == IF den >= 1000 THEN na \div (den \div 1000) ELSE (na * 1000) \div den
    IN  IF (x1 = x2 /\ y1 = y2) \/ (x3 = x4 /\ y3 = y4) THEN NoIntersection
        ELSE IF denominator = 0 THEN NoIntersection
        ELSE IF na < 0 \/ na > den \/ nb < 0 \/ nb > den THEN NoIntersection
        ELSE [hit |-> TRUE,
              x |-> x1 + (ua * (x2 - x1)) \div 1000,
              y |-> y1 + (ua * (y2 - y1)) \div 1000,
              line1 |-> line1, line2 |-> line2]

RECURSIVE Flatten(_)
Flatten(ss) == IF ss = << >> THEN << >> ELSE Head(ss) \o Flatten(Tail(ss))

Hit(r) == r.hit

findIntersections(families) ==
    LET familyPairs == Flatten([i \in 1..Len(families) |->
                          [jj \in 1..(Len(families) - i) |-> <<i, i + jj>>]])
        pairHits(p) ==
            LET family1 == families[p[1]]
                family2 == families[p[2]]
            IN  Flatten([a \in 1..Len(family1) |->
                   [b \in 1..Len(family2) |-> intersect(family1[a], family2[b])]])
    IN  IF Len(families) = 0 THEN << >>
        ELSE SelectSeq(Flatten([q \in 1..Len(familyPairs) |-> pairHits(familyPairs[q])]),
                       Hit)

(***************************************************************************)
(* Geometry kernel                                                         *)
(***************************************************************************)
\* cosAngle = |dot| / (mag1 * mag2), kept as the fraction num/den
cosineOf(dotProduct, mag1, mag2) ==
    IF mag1 = 0 \/ mag2 = 0 THEN [num |-> 1, den |-> 1]
    ELSE [num |-> Abs(dotProduct), den |-> mag1 * mag2]

\* The acute angle between two segments, returned as its cosine num/den
\* (the code returns degrees in 0..90; 0 degrees when a segment is a point).
getAngleBetweenLines(x1, y1, x2, y2, x3, y3, x4, y4) ==
    LET v1x == x2 - x1  v1y == y2 - y1
        v2x == x4 - x3  v2y == y4 - y3
    IN  cosineOf(v1x * v2x + v1y * v2y,
                 Sqrt(v1x * v1x + v1y * v1y), Sqrt(v2x * v2x + v2y * v2y))

\* variant with a tolerance of nearly fifty degrees: cos(angle) <= 3/4
IsNearRightAngle(angle) == 4 * angle.num <= 3 * angle.den

\* Math.abs(angle - RIGHT_ANGLE) < ANGLE_TOLERANCE, i.e. cos(angle) < sin(0.001 deg)
IsRightAngle(angle) == angle.num <= (angle.den - 1) \div RIGHT_ANGLE_TOL_INV

\* Ray casting over the four vertices of a tile
isPointInPolygon(x, y, polygon) ==
    LET points == polygon.points
        crosses(i) ==
            LET j  == IF i = 1 THEN Len(points) ELSE i - 1
                xi == points[i][1]  yi == points[i][2]
                xj == points[j][1]  yj == points[j][2]
                \* x < (xj - xi) * (y - yi) / (yj - yi) + xi
                lhs == (x - xi) * (yj - yi)
                rhs == (xj - xi) * (y - yi)
            IN  ((yi > y) # (yj > y)) /\
                (IF yj - yi > 0 THEN lhs < rhs ELSE lhs > rhs)
    IN  Cardinality({i \in 1..Len(points) : crosses(i)}) % 2 = 1

(***************************************************************************)
(* Rhombus builder                                                         *)
(***************************************************************************)
\* variant with the offsets of family differences 1 and 2 exchanged
angleMapExchanged(familyDiff) ==
    CASE familyDiff = 1 -> 1
      [] familyDiff = 2 -> 3
      [] familyDiff = 3 -> 4
      [] familyDiff = 4 -> 2
      [] OTHER -> 0

\* the angle-offset table of findRhomb, in units of PI/5; 0 for a missing key
angleMap(familyDiff) ==
    CASE familyDiff = 1 -> 3
      [] familyDiff = 2 -> 1
      [] familyDiff = 3 -> 4
      [] familyDiff = 4 -> 2
      [] OTHER -> 0

\* the perpendicularity validation of findRhomb: edge 0-1 against line2 and
\* edge 1-2 against line1; its outcome only selects what is logged
isPerpendicular(points, intersection) ==
    /\ IsRightAngle(getAngleBetweenLines(
           points[1][1], points[1][2], points[2][1], points[2][2],
           intersection.line2.x1, intersection.line2.y1,
           intersection.line2.x2, intersection.line2.y2))
    /\ IsRightAngle(getAngleBetweenLines(
           points[2][1], points[2][2], points[3][1], points[3][2],
           intersection.line1.x1, intersection.line1.y1,
           intersection.line1.x2, intersection.line1.y2))

findRhomb(intersection) ==
    LET angle1 == intersection.line2.angle
        familyDiff == intersection.line2.family - intersection.line1.family
        angle2 == angle1 + angleMap(familyDiff)
        dir1Vector == <<cos(angle1) * SCALE, sin(angle1) * SCALE>>
        dir2Vector == <<cos(angle2) * SCALE, sin(angle2) * SCALE>>
        shift1 == <<(cos(angle1) * SCALE) \div 2, (sin(angle1) * SCALE) \div 2>>
        shift2 == <<(cos(angle2) * SCALE) \div 2, (sin(angle2) * SCALE) \div 2>>
        start == <<intersection.x - (shift1[1] + shift2[1]),
                   intersection.y - (shift1[2] + shift2[2])>>
        dir1 == <<dir1Vector[1] + intersection.x - shift1[1] - shift2[1],
                  dir1Vector[2] + intersection.y - shift1[2] - shift2[2]>>
        dir2 == <<dir2Vector[1] + intersection.x - shift1[1] - shift2[1],
                  dir2Vector[2] + intersection.y - shift1[2] - shift2[2]>>
        dir3 == <<dir2[1] + dir1[1] - intersection.x + shift1[1] + shift2[1],
                  dir2[2] + dir1[2] - intersection.y + shift1[2] + shift2[2]>>
        points == <<start, dir1, dir3, dir2>>
    IN  [points |-> points, intersection |-> intersection,
         aligned |-> FALSE, locked |-> FALSE, originalPoints |-> points]

\* variant whose loop stops one intersection short
generateRhombiButLast(crossings) ==
    [i \in 0..(Len(crossings) - 2) |-> findRhomb(crossings[i + 1])]

\* rhombPoints after generateRhombi, indexed from 0 as in the code
generateRhombi(crossings) ==
    [i \in 0..(Len(crossings) - 1) |-> findRhomb(crossings[i + 1])]

(***************************************************************************)
(* Adjacency graph builder                                                 *)
(***************************************************************************)
\* variant that takes the first candidate on a side, without sorting by distance
FirstOf(best, rest) == best

RECURSIVE ClosestOf(_, _)
\* forward.sort((a, b) => a.distance - b.distance)[0]: the sort is stable
ClosestOf(best, rest) ==
    IF rest = << >> THEN best
    ELSE ClosestOf(IF Head(rest).distance2 < best.distance2 THEN Head(rest) ELSE best,
                   Tail(rest))

\* variant that records every candidate on a side instead of the nearest one
findAllNeighborsOnLine(x, y, line, candidates) ==
    LET lineDx == line.x2 - line.x1
        lineDy == line.y2 - line.y1
        lineLength == Sqrt(lineDx * lineDx + lineDy * lineDy)
        eps == EPSILON_INV \div UNIT
        side(candidate) ==
            LET dx == candidate.x - x
                dy == candidate.y - y
                projection == dx * lineDx + dy * lineDy
            IN  IF Sqrt(dx * dx + dy * dy) * eps < 1 THEN "same"
                ELSE IF projection * eps > lineLength THEN "forward"
                ELSE IF (-projection) * eps > lineLength THEN "backward"
                ELSE "same"
        isForward(candidate) == side(candidate) = "forward"
        isBackward(candidate) == side(candidate) = "backward"
        forward == SelectSeq(candidates, isForward)
        backward == SelectSeq(candidates, isBackward)
    IN  [c \in 1..Len(forward) |-> [index |-> forward[c].index, direction |-> "forward"]]
        \o
        [c \in 1..Len(backward) |-> [index |-> backward[c].index, direction |-> "backward"]]

findClosestNeighborsOnLine(x, y, line, candidates) ==
    LET lineDx == line.x2 - line.x1
        lineDy == line.y2 - line.y1
        lineLength == Sqrt(lineDx * lineDx + lineDy * lineDy)
        eps == EPSILON_INV \div UNIT
        measure(candidate) ==
            LET dx == candidate.x - x
                dy == candidate.y - y
            IN  [index |-> candidate.index,
                 distance2 |-> dx * dx + dy * dy,
                 \* projection * lineLength
                 projection |-> dx * lineDx + dy * lineDy]
        measured == [i \in 1..Len(candidates) |-> measure(candidates[i])]
        notSame(m) == ~(Sqrt(m.distance2) * eps < 1)
        isForward(m)  == notSame(m) /\ m.projection * eps > lineLength
        isBackward(m) == notSame(m) /\ (-m.projection) * eps > lineLength
        forward  == SelectSeq(measured, isForward)
        backward == SelectSeq(measured, isBackward)
    IN  IF Len(candidates) = 0 THEN << >>
        ELSE (IF Len(forward) > 0
                THEN <<[index |-> ClosestOf(Head(forward), Tail(forward)).index,
                        direction |-> "forward"]>>
                ELSE << >>)
             \o
             (IF Len(backward) > 0
                THEN <<[index |-> ClosestOf(Head(backward), Tail(backward)).index,
                        direction |-> "backward"]>>
                ELSE << >>)

RECURSIVE IndexSeq(_, _)
\* the indices lo..hi in increasing order
IndexSeq(lo, hi) == IF lo > hi THEN << >> ELSE <<lo>> \o IndexSeq(lo + 1, hi)

buildRhombGraph(rp) ==
    LET n == Cardinality(DOMAIN rp)
        sameLine(l, m) == l.family = m.family /\ l.n = m.n
        neighbors(i) ==
            LET rhomb == rp[i]
                line1 == rhomb.intersection.line1
                line2 == rhomb.intersection.line2
                onLine(l, j) ==
                    j # i /\ (sameLine(rp[j].intersection.line1, l) \/
                              sameLine(rp[j].intersection.line2, l))
                onLine1(j) == onLine(line1, j)
                onLine2(j) == onLine(line2, j)
                asCandidate(js) ==
                    [c \in 1..Len(js) |-> [index |-> js[c],
                                           x |-> rp[js[c]].intersection.x,
                                           y |-> rp[js[c]].intersection.y]]
                intersectionsOnLine1 == asCandidate(SelectSeq(IndexSeq(0, n - 1), onLine1))
                intersectionsOnLine2 == asCandidate(SelectSeq(IndexSeq(0, n - 1), onLine2))
                neighborsOnLine1 == findClosestNeighborsOnLine(
                    rhomb.intersection.x, rhomb.intersection.y, line1, intersectionsOnLine1)
                neighborsOnLine2 == findClosestNeighborsOnLine(
                    rhomb.intersection.x, rhomb.intersection.y, line2, intersectionsOnLine2)
                record(nd, l) == [neighborIndex |-> nd.index, sharedLine |-> l,
                                  direction |-> nd.direction]
            IN  [c \in 1..Len(neighborsOnLine1) |-> record(neighborsOnLine1[c], line1)]
                \o
                [c \in 1..Len(neighborsOnLine2) |-> record(neighborsOnLine2[c], line2)]
    IN  [i \in DOMAIN rp |-> neighbors(i)]

\* The tiling that setup() builds for one configuration
setupTiles(cfg) == generateRhombi(findIntersections(generateGridFamilies(cfg)))

(***************************************************************************)
(* Alignment engine (utils)                                                *)
(***************************************************************************)
\* variant that takes the tile after each neighbour instead of the neighbour
getAdjacentTilesOffByOne(rp, graph, rhombIndex) ==
    LET adjacentData == IF rhombIndex \in DOMAIN graph THEN graph[rhombIndex] ELSE << >>
        n == Cardinality(DOMAIN rp)
        next == [i \in 1..Len(adjacentData) |->
                    [adjacentData[i] EXCEPT !.neighborIndex = (@ + 1) % n]]
        unaligned(data) == ~rp[data.neighborIndex].aligned
    IN  SelectSeq(next, unaligned)

getUnalignedAdjacentTiles(rp, graph, rhombIndex) ==
    LET adjacentData == IF rhombIndex \in DOMAIN graph THEN graph[rhombIndex] ELSE << >>
        unaligned(data) == ~rp[data.neighborIndex].aligned
    IN  SelectSeq(adjacentData, unaligned)

NoEdge == [found |-> FALSE]

\* edge i of the tile with the projection of its centre on the line, as
\* 2 * lineLength * projection
edgeOf(rhomb, line, i) ==
    LET v1 == rhomb.points[i + 1]
        v2 == rhomb.points[((i + 1) % 4) + 1]
    IN  [found |-> TRUE, v1 |-> v1, v2 |-> v2,
         projection |-> (v1[1] + v2[1] - 2 * rhomb.intersection.x) * (line.x2 - line.x1)
                      + (v1[2] + v2[2] - 2 * rhomb.intersection.y) * (line.y2 - line.y1)]

\* variant without the fallback: no edge unless exactly two are perpendicular
pickEdgeStrict(perpEdges, direction) ==
    IF Len(perpEdges) # 2 THEN NoEdge
    ELSE IF direction = "forward"
      THEN (IF perpEdges[1].projection > perpEdges[2].projection
              THEN perpEdges[1] ELSE perpEdges[2])
      ELSE (IF perpEdges[1].projection < perpEdges[2].projection
              THEN perpEdges[1] ELSE perpEdges[2])

\* variant that decides by the sign of the first projection alone
pickEdgeBySign(perpEdges, direction) ==
    IF Len(perpEdges) # 2
      THEN (IF Len(perpEdges) > 0 THEN perpEdges[1] ELSE NoEdge)
    ELSE IF direction = "forward"
      THEN (IF perpEdges[1].projection > 0 THEN perpEdges[1] ELSE perpEdges[2])
      ELSE (IF perpEdges[1].projection < 0 THEN perpEdges[1] ELSE perpEdges[2])

\* the choice among the perpendicular edges
pickEdge(perpEdges, direction) ==
    IF Len(perpEdges) # 2
      THEN (IF Len(perpEdges) > 0 THEN perpEdges[1] ELSE NoEdge)
    ELSE IF direction = "forward"
      THEN (IF perpEdges[1].projection > perpEdges[2].projection
              THEN perpEdges[1] ELSE perpEdges[2])
      ELSE (IF perpEdges[1].projection < perpEdges[2].projection
              THEN perpEdges[1] ELSE perpEdges[2])

edgesAt(rhomb, line, perpIdx) ==
    [e \in 1..Len(perpIdx) |-> edgeOf(rhomb, line, perpIdx[e])]

findEdgeOnLine(rhomb, line, direction) ==
    LET isPerp(i) ==
            IsRightAngle(getAngleBetweenLines(
                rhomb.points[i + 1][1], rhomb.points[i + 1][2],
                rhomb.points[((i + 1) % 4) + 1][1], rhomb.points[((i + 1) % 4) + 1][2],
                line.x1, line.y1, line.x2, line.y2))
    IN  pickEdge(edgesAt(rhomb, line, SelectSeq(IndexSeq(0, 3), isPerp)), direction)

Opposite(direction) == IF direction = "forward" THEN "backward" ELSE "forward"

\* variant that uses the translation of the first vertex pair only
offsetFromFirstVertex(startEdge, adjEdge) ==
    IF ~startEdge.found \/ ~adjEdge.found THEN [x |-> 0, y |-> 0]
    ELSE [x |-> startEdge.v1[1] - adjEdge.v1[1],
          y |-> startEdge.v1[2] - adjEdge.v1[2]]

\* the average of the two vertex-to-vertex translations
offsetBetween(startEdge, adjEdge) ==
    IF ~startEdge.found \/ ~adjEdge.found THEN [x |-> 0, y |-> 0]
    ELSE [x |-> ((startEdge.v1[1] - adjEdge.v1[1]) + (startEdge.v2[1] - adjEdge.v2[1])) \div 2,
          y |-> ((startEdge.v1[2] - adjEdge.v1[2]) + (startEdge.v2[2] - adjEdge.v2[2])) \div 2]

calculateAlignmentOffset(startRhomb, adjacentRhomb, sharedLine, direction) ==
    offsetBetween(findEdgeOnLine(startRhomb, sharedLine, direction),
                  findEdgeOnLine(adjacentRhomb, sharedLine, Opposite(direction)))

\* variant that applies the offset to the first vertex only
realignFirstVertex(rhomb, offset) ==
    [rhomb EXCEPT !.points[1] = <<rhomb.points[1][1] + offset.x,
                                  rhomb.points[1][2] + offset.y>>]

realignRhombus(rhomb, offset) ==
    [rhomb EXCEPT !.points = [i \in 1..Len(rhomb.points) |->
                                <<rhomb.points[i][1] + offset.x,
                                  rhomb.points[i][2] + offset.y>>]]

\* queue.push(adjacentIndex) ahead of the pushes of the later neighbours
pushed(adjacentIndex, rest) == <<rest[1], <<adjacentIndex>> \o rest[2]>>

\* realignRhombus(adjacentTile, offset); adjacentTile.aligned = true
place(rp, adjacentIndex, offset) ==
    [rp EXCEPT ![adjacentIndex] =
        [realignRhombus(rp[adjacentIndex], offset) EXCEPT !.aligned = TRUE]]

RECURSIVE AlignNeighbors(_, _, _)
\* the body of "for (const data of adjacentTileData)"; returns <<rp, pushed>>
AlignNeighbors(rp, startingTileIndex, adjacentTileData) ==
    IF adjacentTileData = << >> THEN <<rp, << >>>>
    ELSE pushed(Head(adjacentTileData).neighborIndex,
                AlignNeighbors(
                    place(rp, Head(adjacentTileData).neighborIndex,
                          calculateAlignmentOffset(
                              rp[startingTileIndex],
                              rp[Head(adjacentTileData).neighborIndex],
                              Head(adjacentTileData).sharedLine,
                              Head(adjacentTileData).direction)),
                    startingTileIndex, Tail(adjacentTileData)))

RECURSIVE AlignLoop(_, _, _)
\* the loop continues with the tiles as moved and the neighbours enqueued
AlignRest(step, graph, queue) == AlignLoop(step[1], graph, Tail(queue) \o step[2])

\* "while (queue.length > 0)"
AlignLoop(rp, graph, queue) ==
    IF queue = << >> THEN rp
    ELSE AlignRest(AlignNeighbors(rp, Head(queue),
                                  getUnalignedAdjacentTiles(rp, graph, Head(queue))),
                   graph, queue)

\* rhombPoints after the batch BFS
alignRhombuses(rp, graph) ==
    IF Cardinality(DOMAIN rp) = 0 THEN rp
    ELSE AlignLoop([rp EXCEPT ![0].aligned = TRUE], graph, <<0>>)

\* variant that clears the flags and leaves the vertices where they are
resetFlagsOnly(rp) ==
    [r \in DOMAIN rp |-> [rp[r] EXCEPT !.aligned = FALSE]]

resetRhombuses(rp) ==
    [r \in DOMAIN rp |->
        [rp[r] EXCEPT !.points = [i \in 1..Len(rp[r].points) |->
                                     <<rp[r].originalPoints[i][1],
                                       rp[r].originalPoints[i][2]>>],
                      !.aligned = FALSE]]

(***************************************************************************)
(* sketch.js: state after setup()                                          *)
(***************************************************************************)
Init ==
    \E cfg \in Configs :
        /\ GAMMAS = cfg.GAMMAS
        /\ gridLines = generateGridFamilies(cfg)
        /\ intersections = findIntersections(gridLines)
        /\ rhombPoints = generateRhombi(intersections)
        /\ rhombGraph = buildRhombGraph(rhombPoints)
        /\ width = cfg.GRID_SIZE * UNIT
        /\ selectedRhomb = NULL
        /\ isAligned = FALSE
        /\ showTrace = TRUE
        /\ alignmentQueue = << >>
        /\ isAligning = FALSE
        /\ currentlyAligning = NULL
        /\ currentOffset = NullOffset
        /\ animationStartPositions = NullPositions
        /\ visualizationProgress = 0
        /\ looping = TRUE
        /\ dragCount = 0
        /\ lastOp = "setup"
        /\ seedSet = {}
        /\ runStart = rhombPoints
        /\ draggedInRun = {}

Tiles == DOMAIN rhombPoints

\* the history variable names the handler that ran last; mousePressed,
\* mouseReleased and updateTraceMode, which no property tells apart, share "input"
History(op) == lastOp' = op

(***************************************************************************)
(* Mouse handlers                                                          *)
(***************************************************************************)
\* mouse positions tried: a corner, the centre, the middle of the left side, outside
MousePositions ==
    { <<width, 0>>, <<width \div 2, width \div 2>>, <<0, width \div 2>>, <<-UNIT, 0>> }

\* mouseX - pmouseX, mouseY - pmouseY
DragDeltas == { <<2 * UNIT, UNIT>> }

isWithinBounds(x, y) == x >= 0 /\ x <= width /\ y >= 0 /\ y <= width

mousePressed(mouseX, mouseY) ==
    LET centerX == width \div 2
        centerY == width \div 2
        canvasX == mouseX - centerX
        canvasY == mouseY - centerY
        hit == {t \in Tiles : isPointInPolygon(canvasX, canvasY, rhombPoints[t])}
    IN  /\ selectedRhomb' =
              IF ~isWithinBounds(mouseX, mouseY) THEN NULL
              ELSE IF hit # {} THEN CHOOSE t \in hit : \A u \in hit : t <= u
              ELSE NULL
        /\ History("input")
        /\ UNCHANGED <<rhombPoints, rhombGraph, GAMMAS, gridLines, intersections, isAligned, showTrace, alignmentQueue,
                       isAligning, currentlyAligning, currentOffset,
                       animationStartPositions, visualizationProgress, width, looping,
                       dragCount, seedSet, runStart, draggedInRun>>

MousePressed == \E m \in MousePositions : mousePressed(m[1], m[2])

\* variant in which a drag marks the tile as not aligned
mouseDraggedUnaligning(deltaX, deltaY) ==
    /\ IF selectedRhomb = NULL
         THEN UNCHANGED <<rhombPoints, draggedInRun, dragCount>>
         ELSE /\ dragCount < MaxDrags
              /\ dragCount' = dragCount + 1
              /\ rhombPoints' =
                    [rhombPoints EXCEPT ![selectedRhomb] =
                        [@ EXCEPT !.points = [i \in 1..Len(@) |->
                                                 <<@[i][1] + deltaX, @[i][2] + deltaY>>],
                                  !.locked = TRUE,
                                  !.aligned = FALSE]]
              /\ draggedInRun' = IF isAligning THEN draggedInRun \cup {selectedRhomb}
                                               ELSE draggedInRun
    /\ History("mouseDragged")
    /\ UNCHANGED <<rhombGraph, GAMMAS, gridLines, intersections, selectedRhomb,
                   isAligned, showTrace, alignmentQueue, isAligning, currentlyAligning,
                   currentOffset, animationStartPositions, visualizationProgress, width,
                   looping, seedSet, runStart>>

\* variant in which a drag moves the tile and does not lock it
mouseDraggedWithoutLock(deltaX, deltaY) ==
    /\ IF selectedRhomb = NULL
         THEN UNCHANGED <<rhombPoints, draggedInRun, dragCount>>
         ELSE /\ dragCount < MaxDrags
              /\ dragCount' = dragCount + 1
              /\ rhombPoints' =
                    [rhombPoints EXCEPT ![selectedRhomb] =
                        [@ EXCEPT !.points = [i \in 1..Len(@) |->
                                                 <<@[i][1] + deltaX, @[i][2] + deltaY>>],
                                  !.aligned = TRUE]]
              /\ draggedInRun' = IF isAligning THEN draggedInRun \cup {selectedRhomb}
                                               ELSE draggedInRun
    /\ History("mouseDragged")
    /\ UNCHANGED <<rhombGraph, GAMMAS, gridLines, intersections, selectedRhomb,
                   isAligned, showTrace, alignmentQueue, isAligning, currentlyAligning,
                   currentOffset, animationStartPositions, visualizationProgress, width,
                   looping, seedSet, runStart>>

mouseDragged(deltaX, deltaY) ==
    /\ IF selectedRhomb = NULL
         THEN UNCHANGED <<rhombPoints, draggedInRun, dragCount>>
         ELSE /\ dragCount < MaxDrags
              /\ dragCount' = dragCount + 1
              /\ rhombPoints' =
                    [rhombPoints EXCEPT ![selectedRhomb] =
                        [@ EXCEPT !.points = [i \in 1..Len(@) |->
                                                 <<@[i][1] + deltaX, @[i][2] + deltaY>>],
                                  !.locked = TRUE,
                                  !.aligned = TRUE]]
              /\ draggedInRun' = IF isAligning THEN draggedInRun \cup {selectedRhomb}
                                               ELSE draggedInRun
    /\ History("mouseDragged")
    /\ UNCHANGED <<rhombGraph, GAMMAS, gridLines, intersections, selectedRhomb, isAligned, showTrace, alignmentQueue,
                   isAligning, currentlyAligning, currentOffset,
                   animationStartPositions, visualizationProgress, width, looping,
                   seedSet, runStart>>

MouseDragged == \E d \in DragDeltas : mouseDragged(d[1], d[2])

MouseReleased ==
    /\ selectedRhomb' = NULL
    /\ History("input")
    /\ UNCHANGED <<rhombPoints, rhombGraph, GAMMAS, gridLines, intersections, isAligned, showTrace, alignmentQueue,
                   isAligning, currentlyAligning, currentOffset,
                   animationStartPositions, visualizationProgress, width, looping,
                   dragCount, seedSet, runStart, draggedInRun>>

\* the checkbox was clicked: showTrace = showTraceCheckbox.checked()
UpdateTraceMode ==
    /\ showTrace' = ~showTrace
    /\ History("input")
    /\ UNCHANGED <<rhombPoints, rhombGraph, GAMMAS, gridLines, intersections, selectedRhomb, isAligned, alignmentQueue,
                   isAligning, currentlyAligning, currentOffset,
                   animationStartPositions, visualizationProgress, width, looping,
                   dragCount, seedSet, runStart, draggedInRun>>

(***************************************************************************)
(* Align / reset button                                                    *)
(***************************************************************************)
\* variant that always seeds the run with tile 0, whatever is locked
startFromTileZero ==
    /\ alignmentQueue' = <<0>>
    /\ rhombPoints' = [rhombPoints EXCEPT ![0].aligned = TRUE]
    /\ isAligning' = TRUE
    /\ currentlyAligning' = NULL
    /\ currentOffset' = NullOffset
    /\ visualizationProgress' = 0
    /\ seedSet' = {0}
    /\ runStart' = rhombPoints
    /\ draggedInRun' = {}
    /\ UNCHANGED <<rhombGraph, GAMMAS, gridLines, intersections, selectedRhomb,
                   isAligned, showTrace, animationStartPositions, width, looping,
                   dragCount>>

startProgressiveAlignment ==
    LET lockedTiles == SelectSeq(IndexSeq(0, Cardinality(Tiles) - 1),
                                 LAMBDA i : rhombPoints[i].locked)
        lockedCount == Len(lockedTiles)
    IN  /\ IF lockedCount > 0
             THEN /\ alignmentQueue' = lockedTiles
                  /\ UNCHANGED rhombPoints
             ELSE /\ alignmentQueue' = <<0>>
                  /\ rhombPoints' = [rhombPoints EXCEPT ![0].aligned = TRUE]
        /\ isAligning' = TRUE
        /\ currentlyAligning' = NULL
        /\ currentOffset' = NullOffset
        /\ visualizationProgress' = 0
        /\ seedSet' = {alignmentQueue'[i] : i \in 1..Len(alignmentQueue')}
        /\ runStart' = rhombPoints
        /\ draggedInRun' = {}
        /\ UNCHANGED <<rhombGraph, GAMMAS, gridLines, intersections, selectedRhomb, isAligned, showTrace,
                       animationStartPositions, width, looping, dragCount>>

toggleAlignment ==
    IF ~isAligned /\ ~isAligning
      THEN /\ startProgressiveAlignment
           /\ History("start")
    ELSE IF isAligned
      THEN /\ rhombPoints' = resetRhombuses(rhombPoints)
           /\ isAligned' = FALSE
           /\ isAligning' = FALSE
           /\ alignmentQueue' = << >>
           /\ History("reset")
           /\ UNCHANGED <<rhombGraph, GAMMAS, gridLines, intersections, selectedRhomb, showTrace, currentlyAligning,
                          currentOffset, animationStartPositions, visualizationProgress,
                          width, looping, dragCount, seedSet, runStart, draggedInRun>>
    ELSE /\ History("toggleIgnored")
         /\ UNCHANGED <<rhombPoints, rhombGraph, GAMMAS, gridLines, intersections, selectedRhomb, isAligned, showTrace,
                        alignmentQueue, isAligning, currentlyAligning, currentOffset,
                        animationStartPositions, visualizationProgress, width, looping,
                        dragCount, seedSet, runStart, draggedInRun>>

\* the synchronous variant of the button: alignRhombuses() in one call
toggleAlignmentBatch ==
    /\ ~isAligned /\ ~isAligning
    /\ rhombPoints' = alignRhombuses(rhombPoints, rhombGraph)
    /\ isAligned' = TRUE
    /\ seedSet' = {0}
    /\ runStart' = rhombPoints
    /\ draggedInRun' = {}
    /\ History("batch")
    /\ UNCHANGED <<rhombGraph, GAMMAS, gridLines, intersections, selectedRhomb, showTrace, alignmentQueue, isAligning,
                   currentlyAligning, currentOffset, animationStartPositions,
                   visualizationProgress, width, looping, dragCount>>

(***************************************************************************)
(* Progressive alignment: one step, and the frame loop that drives it      *)
(***************************************************************************)
RECURSIVE Repeat(_, _)
Repeat(x, k) == IF k <= 0 THEN << >> ELSE <<x>> \o Repeat(x, k - 1)

\* variant that reads the front of the queue without removing it
Peek(queue) == queue

\* alignmentQueue.shift(): the queue after its front element is removed
Shift(queue) == Tail(queue)

\* variant that puts the starting tile back behind the new neighbour
requeueAtBack(queue, startingTileIndex, adjacentIndex, count) ==
    Shift(queue) \o <<adjacentIndex>> \o Repeat(startingTileIndex, count - 1)

\* the queue after shift(), push(adjacentIndex) and one unshift(startingTileIndex)
\* for each of the count - 1 neighbours that are left
requeue(queue, startingTileIndex, adjacentIndex, count) ==
    Repeat(startingTileIndex, count - 1) \o Shift(queue) \o <<adjacentIndex>>

\* variant that marks every tile aligned, not only the neighbour worked on
markAllAligned(rp, adjacentIndex, placed) ==
    [t \in DOMAIN rp |->
        [(IF t = adjacentIndex THEN placed ELSE rp[t]) EXCEPT !.aligned = TRUE]]

\* variant that leaves the aligned flag of the neighbour as it was
markNotAligned(rp, adjacentIndex, placed) ==
    [rp EXCEPT ![adjacentIndex] = placed]

\* adjacentTile.aligned = true, on the neighbour as stepAlignment has placed it
markAligned(rp, adjacentIndex, placed) ==
    [rp EXCEPT ![adjacentIndex] = [placed EXCEPT !.aligned = TRUE]]

\* stepAlignment(), entered with the animation variables ca, co, vp, asp
stepAlignment(ca, co, vp, asp) ==
    IF Len(alignmentQueue) = 0
      THEN /\ isAligning' = FALSE
           /\ isAligned' = TRUE
           /\ currentlyAligning' = NULL
           /\ currentOffset' = NullOffset
           /\ visualizationProgress' = vp
           /\ animationStartPositions' = asp
           /\ History("drawComplete")
           /\ UNCHANGED <<rhombPoints, alignmentQueue>>
    ELSE
      LET startingTileIndex == Head(alignmentQueue)
          startingTile == rhombPoints[startingTileIndex]
          adjacentTileData == getUnalignedAdjacentTiles(rhombPoints, rhombGraph,
                                                        startingTileIndex)
      IN  /\ History("drawStep")
          /\ UNCHANGED <<isAligning, isAligned>>
          /\ IF Len(adjacentTileData) > 0
               THEN
                 LET data == adjacentTileData[1]
                     adjacentIndex == data.neighborIndex
                     adjacentTile == rhombPoints[adjacentIndex]
                     offset == calculateAlignmentOffset(startingTile, adjacentTile,
                                                        data.sharedLine, data.direction)
                     placed == IF ~adjacentTile.locked /\ ~showTrace
                                 THEN realignRhombus(adjacentTile, offset)
                                 ELSE adjacentTile
                 IN  /\ currentlyAligning' = adjacentIndex
                     /\ visualizationProgress' = 0
                     /\ currentOffset' = IF ~adjacentTile.locked THEN offset
                                         ELSE [x |-> 0, y |-> 0]
                     /\ animationStartPositions' =
                           IF ~adjacentTile.locked /\ showTrace
                             THEN adjacentTile.points ELSE asp
                     /\ rhombPoints' = markAligned(rhombPoints, adjacentIndex, placed)
                     /\ alignmentQueue' = requeue(alignmentQueue, startingTileIndex,
                                                  adjacentIndex, Len(adjacentTileData))
               ELSE /\ alignmentQueue' = Shift(alignmentQueue)
                    /\ currentlyAligning' = ca
                    /\ currentOffset' = co
                    /\ visualizationProgress' = vp
                    /\ animationStartPositions' = asp
                    /\ UNCHANGED rhombPoints

\* drawMovementPath() reads animationStartPositions[0]: a TypeError when null
MovementPathThrows(trace, ca, co, asp) ==
    trace /\ ca # NULL /\ co # NullOffset /\ asp = NullPositions

\* one frame of draw()
draw ==
    /\ looping
    /\ UNCHANGED <<rhombGraph, GAMMAS, gridLines, intersections, selectedRhomb, showTrace, width, dragCount, seedSet,
                   runStart, draggedInRun>>
    /\ IF ~isAligning
         THEN /\ History("drawIdle")
              /\ UNCHANGED <<rhombPoints, isAligned, alignmentQueue, isAligning,
                             currentlyAligning, currentOffset, animationStartPositions,
                             visualizationProgress>>
       ELSE IF showTrace /\ currentlyAligning # NULL
                         /\ visualizationProgress < visualizationFrames
         THEN IF animationStartPositions = NullPositions
                \* animationStartPositions[i] of null: the frame throws before any write
                THEN /\ History("drawThrow")
                     /\ UNCHANGED <<rhombPoints, isAligned, alignmentQueue, isAligning,
                                    currentlyAligning, currentOffset,
                                    animationStartPositions, visualizationProgress>>
                ELSE
                  LET rhomb == rhombPoints[currentlyAligning]
                      step == visualizationProgress + 1
                      interpolated ==
                          [i \in 1..Len(rhomb.points) |->
                             <<animationStartPositions[i][1]
                                  + (currentOffset.x * step) \div visualizationFrames,
                               animationStartPositions[i][2]
                                  + (currentOffset.y * step) \div visualizationFrames>>]
                      finished == step >= visualizationFrames
                  IN  /\ rhombPoints' = [rhombPoints EXCEPT
                                            ![currentlyAligning].points = interpolated]
                      /\ visualizationProgress' = IF finished THEN 0 ELSE step
                      /\ currentlyAligning' = IF finished THEN NULL ELSE currentlyAligning
                      /\ currentOffset' = IF finished THEN NullOffset ELSE currentOffset
                      /\ animationStartPositions' =
                            IF finished THEN NullPositions ELSE animationStartPositions
                      /\ History("drawAnimate")
                      /\ UNCHANGED <<isAligned, alignmentQueue, isAligning>>
       ELSE IF ~showTrace /\ currentlyAligning # NULL
         THEN stepAlignment(NULL, NullOffset, 0, NullPositions)
         ELSE stepAlignment(currentlyAligning, currentOffset, visualizationProgress,
                            animationStartPositions)
    \* an uncaught exception in draw() may end the requestAnimationFrame chain
    /\ IF lastOp' = "drawThrow"
          \/ MovementPathThrows(showTrace, currentlyAligning', currentOffset',
                                animationStartPositions')
         THEN looping' \in BOOLEAN
         ELSE looping' = TRUE

Next ==
    \/ draw
    \/ MousePressed
    \/ MouseDragged
    \/ MouseReleased
    \/ UpdateTraceMode
    \/ toggleAlignment
    \/ toggleAlignmentBatch

Spec == Init /\ [][Next]_vars

\* draw() changes the state unless the loop has stopped or the sketch idles
DrawCanAct == looping /\ ~(lastOp = "drawIdle" /\ ~isAligning)

\* the draw loop is rescheduled by requestAnimationFrame for as long as it runs:
\* weak fairness of draw, with its enabling condition written out
FairSpec == Spec /\ (([]<>~DrawCanAct) \/ ([]<><<draw>>_vars))

(***************************************************************************)
(* setup() taken one call at a time, over a larger set of gamma vectors:   *)
(* the generator, the intersection finder, the rhombus builder and the     *)
(* graph builder are applied to the globals in the order of setup().       *)
(***************************************************************************)
\* the first four gammas, in hundredths; the fifth makes the sum 1
GammaChoices == {3, 17, 28}

SetupConfigs ==
    Configs \cup
    { [GAMMAS |-> <<a, b, c, d, 100 - a - b - c - d>>, SPACING |-> 100, GRID_SIZE |-> s] :
         a \in GammaChoices, b \in GammaChoices, c \in GammaChoices, d \in GammaChoices,
         s \in {23, 31} }

\* the state when the script is loaded, the canvas size and the gammas chosen
SetupInit ==
    \E cfg \in SetupConfigs :
        /\ GAMMAS = cfg.GAMMAS
        /\ width = cfg.GRID_SIZE * UNIT
        /\ gridLines = << >>
        /\ intersections = << >>
        /\ rhombPoints = << >>
        /\ rhombGraph = << >>
        /\ selectedRhomb = NULL
        /\ isAligned = FALSE
        /\ showTrace = TRUE
        /\ alignmentQueue = << >>
        /\ isAligning = FALSE
        /\ currentlyAligning = NULL
        /\ currentOffset = NullOffset
        /\ animationStartPositions = NullPositions
        /\ visualizationProgress = 0
        /\ looping = TRUE
        /\ dragCount = 0
        /\ lastOp = "load"
        /\ seedSet = {}
        /\ runStart = << >>
        /\ draggedInRun = {}

currentConfig ==
    CHOOSE cfg \in SetupConfigs : cfg.GAMMAS = GAMMAS /\ cfg.GRID_SIZE * UNIT = width

interactionVars ==
    <<selectedRhomb, isAligned, showTrace, alignmentQueue, isAligning,
      currentlyAligning, currentOffset, animationStartPositions,
      visualizationProgress, width, looping, dragCount, seedSet, runStart,
      draggedInRun>>

\* generateGridFamilies(): gridLines = [] and five pushes; a second call regenerates
\* variant that pushes the five families without emptying gridLines first
AppendGridFamilies ==
    /\ lastOp \in {"load", "generateGridFamilies"}
    /\ gridLines' = gridLines \o generateGridFamilies(currentConfig)
    /\ History(IF lastOp = "load" THEN "generateGridFamilies"
                                  ELSE "regenerateGridFamilies")
    /\ UNCHANGED <<GAMMAS, intersections, rhombPoints, rhombGraph, interactionVars>>

GenerateGridFamilies ==
    /\ lastOp \in {"load", "generateGridFamilies"}
    /\ gridLines' = generateGridFamilies(currentConfig)
    /\ History(IF lastOp = "load" THEN "generateGridFamilies"
                                  ELSE "regenerateGridFamilies")
    /\ UNCHANGED <<GAMMAS, intersections, rhombPoints, rhombGraph, interactionVars>>

\* findIntersections(): intersections.length = 0 and one push per crossing
FindIntersections ==
    /\ lastOp \in {"generateGridFamilies", "regenerateGridFamilies", "findIntersections"}
    /\ intersections' = findIntersections(gridLines)
    /\ History("findIntersections")
    /\ UNCHANGED <<GAMMAS, gridLines, rhombPoints, rhombGraph, interactionVars>>

GenerateRhombi ==
    /\ lastOp = "findIntersections"
    /\ rhombPoints' = generateRhombi(intersections)
    /\ History("generateRhombi")
    /\ UNCHANGED <<GAMMAS, gridLines, intersections, rhombGraph, interactionVars>>

\* buildRhombGraph(): rhombGraph.clear() and one adjacency list per tile
BuildRhombGraph ==
    /\ lastOp \in {"generateRhombi", "buildRhombGraph"}
    /\ rhombGraph' = buildRhombGraph(rhombPoints)
    /\ History("buildRhombGraph")
    /\ UNCHANGED <<GAMMAS, gridLines, intersections, rhombPoints, interactionVars>>

SetupNext ==
    \/ GenerateGridFamilies
    \/ FindIntersections
    \/ GenerateRhombi
    \/ BuildRhombGraph

SetupSpec == SetupInit /\ [][SetupNext]_vars

(***************************************************************************)
(* The intersection finder on arbitrary segments: two families, the first  *)
(* with two segments and the second with one, endpoints on a small lattice *)
(* (zero-length, parallel, collinear, touching and crossing segments).     *)
(***************************************************************************)
LatticePoints == {<<x * UNIT, y * UNIT>> : x \in 0..2, y \in 0..1}

Segments == {[x1 |-> p[1], y1 |-> p[2], x2 |-> q[1], y2 |-> q[2]] :
                p \in LatticePoints, q \in LatticePoints}

IntersectInit ==
    \E s1 \in Segments, s2 \in Segments, s3 \in Segments :
        /\ gridLines = << <<s1, s2>>, <<s3>> >>
        /\ GAMMAS = << >>
        /\ width = 2 * UNIT
        /\ intersections = << >>
        /\ rhombPoints = << >>
        /\ rhombGraph = << >>
        /\ selectedRhomb = NULL
        /\ isAligned = FALSE
        /\ showTrace = TRUE
        /\ alignmentQueue = << >>
        /\ isAligning = FALSE
        /\ currentlyAligning = NULL
        /\ currentOffset = NullOffset
        /\ animationStartPositions = NullPositions
        /\ visualizationProgress = 0
        /\ looping = TRUE
        /\ dragCount = 0
        /\ lastOp = "generateGridFamilies"
        /\ seedSet = {}
        /\ runStart = << >>
        /\ draggedInRun = {}

IntersectSpec == IntersectInit /\ [][FindIntersections]_vars

(***************************************************************************)
(* The alignment step on arbitrary quadrilaterals: two tiles that name     *)
(* each other as neighbours across one line, each with any of a few vertex *)
(* lists (a square, and lists with repeated or collinear vertices, which   *)
(* have 0, 1, 3 or 4 edges perpendicular to the line), driven by the       *)
(* button, the trace box and the frame loop.                               *)
(***************************************************************************)
\* vertex lists, in units of UNIT: 2, 0, 4, 1 and 3 edges are perpendicular to
\* a vertical line, in this order
QuadShapes ==
    { << <<0, 0>>, <<1, 0>>, <<1, 1>>, <<0, 1>> >>,
      << <<0, 0>>, <<0, 0>>, <<0, 0>>, <<0, 0>> >>,
      << <<0, 0>>, <<1, 0>>, <<2, 0>>, <<1, 0>> >>,
      << <<0, 0>>, <<0, 0>>, <<1, 0>>, <<1, 1>> >>,
      << <<0, 0>>, <<1, 0>>, <<2, 0>>, <<2, 0>> >> }

\* a vertical, a horizontal and a zero-length line
QuadLines ==
    { [x1 |-> 0, y1 |-> -3 * UNIT, x2 |-> 0, y2 |-> 3 * UNIT],
      [x1 |-> -3 * UNIT, y1 |-> 0, x2 |-> 3 * UNIT, y2 |-> 0],
      [x1 |-> 0, y1 |-> 0, x2 |-> 0, y2 |-> 0] }

\* the tile with the vertex list shape moved to (ox, oy), as findRhomb pushes it
QuadTile(shape, ox, oy, line) ==
    LET points == [i \in 1..4 |-> <<shape[i][1] * UNIT + ox, shape[i][2] * UNIT + oy>>]
    IN  [points |-> points,
         intersection |-> [hit |-> TRUE, x |-> ox, y |-> oy, line1 |-> line, line2 |-> line],
         aligned |-> FALSE, locked |-> FALSE, originalPoints |-> points]

FallbackInit ==
    \E s0 \in QuadShapes, s1 \in QuadShapes, line \in QuadLines,
       direction \in {"forward", "backward"} :
        /\ GAMMAS = << >>
        /\ gridLines = << <<line>> >>
        /\ rhombPoints = [t \in 0..1 |-> IF t = 0 THEN QuadTile(s0, 0, 0, line)
                                                  ELSE QuadTile(s1, 4 * UNIT, 2 * UNIT, line)]
        /\ intersections = <<rhombPoints[0].intersection, rhombPoints[1].intersection>>
        /\ rhombGraph = [t \in 0..1 |->
              << [neighborIndex |-> 1 - t, sharedLine |-> line,
                  direction |-> IF t = 0 THEN direction ELSE Opposite(direction)] >>]
        /\ width = 8 * UNIT
        /\ selectedRhomb = NULL
        /\ isAligned = FALSE
        /\ showTrace = TRUE
        /\ alignmentQueue = << >>
        /\ isAligning = FALSE
        /\ currentlyAligning = NULL
        /\ currentOffset = NullOffset
        /\ animationStartPositions = NullPositions
        /\ visualizationProgress = 0
        /\ looping = TRUE
        /\ dragCount = 0
        /\ lastOp = "setup"
        /\ seedSet = {}
        /\ runStart = rhombPoints
        /\ draggedInRun = {}

FallbackNext ==
    \/ draw
    \/ UpdateTraceMode
    \/ toggleAlignment

\* the frame loop is fair, as in FairSpec
FallbackSpec ==
    /\ FallbackInit
    /\ [][FallbackNext]_vars
    /\ (([]<>~DrawCanAct) \/ ([]<><<draw>>_vars))

(***************************************************************************)
(* Tiles translated far from their intersections: the tilings of setup()   *)
(* with drags of sixty pixels per event, more than the size of a tile, and *)
(* the synchronous alignment and the reset of the button.                  *)
(***************************************************************************)
\* mouseX - pmouseX, mouseY - pmouseY of a fast drag, along each diagonal (no
\* grid line is parallel or perpendicular to a diagonal)
FarDeltas ==
    {<<a * 60 * UNIT, b * 60 * UNIT>> : a \in {-1, 1}, b \in {-1, 1}}

MouseDraggedFar == \E d \in FarDeltas : mouseDragged(d[1], d[2])

TranslateNext ==
    \/ MousePressed
    \/ MouseDraggedFar
    \/ MouseReleased
    \/ toggleAlignmentBatch
    \/ toggleAlignment

TranslateSpec == Init /\ [][TranslateNext]_vars

(***************************************************************************)
(* Vocabulary of the properties                                            *)
(***************************************************************************)
AlignedSet(rp) == {t \in DOMAIN rp : rp[t].aligned}
LockedSet(rp) == {t \in DOMAIN rp : rp[t].locked}

Neighbours(S) ==
    UNION {{rhombGraph[t][i].neighborIndex : i \in 1..Len(rhombGraph[t])} : t \in S}

RECURSIVE Reach(_)
\* tiles reachable from S through the adjacency graph
Reach(S) == LET N == S \cup Neighbours(S) IN IF N = S THEN S ELSE Reach(N)

\* steps taken by the alignment engine: frames of a run, and the batch run
FrameOps == {"drawAnimate", "drawStep", "drawComplete", "drawThrow"}
EngineOps == FrameOps \cup {"batch"}

\* a frame that cannot reach stepAlignment(): the loop has stopped, or the frame
\* throws on animationStartPositions before the call
StepNotCalled ==
    \/ ~looping
    \/ /\ showTrace /\ currentlyAligning # NULL
       /\ visualizationProgress < visualizationFrames
       /\ animationStartPositions = NullPositions

(***************************************************************************)
(* C1: when a run that started with no tile aligned except its seeds       *)
(* completes (single-step or batch), the aligned tiles are exactly the     *)
(* tiles reachable from the seed set through the adjacency graph.          *)
(***************************************************************************)
C1_Coverage ==
    (lastOp \in {"drawComplete", "batch"} /\ AlignedSet(runStart) \subseteq seedSet)
       => AlignedSet(rhombPoints) = Reach(seedSet)

(***************************************************************************)
(* C2: for the same graph, initial positions and seed set, single-step     *)
(* alignment run to completion leaves every tile at the vertex positions   *)
(* one batch run of alignRhombuses produces.                               *)
(***************************************************************************)
C2_BatchEquivalence ==
    (lastOp = "drawComplete" /\ LockedSet(runStart) = {} /\ draggedInRun = {})
       => \A t \in Tiles :
             rhombPoints[t].points = alignRhombuses(runStart, rhombGraph)[t].points

(***************************************************************************)
(* C3: after a reset every tile has aligned = false and locked = false and *)
(* the alignment queue is empty.                                           *)
(***************************************************************************)
C3_ResetClears ==
    lastOp = "reset"
       => /\ \A t \in Tiles : ~rhombPoints[t].aligned /\ ~rhombPoints[t].locked
          /\ alignmentQueue = << >>

(***************************************************************************)
(* C4 as stated: after alignment then reset every vertex equals its value  *)
(* in the original-position snapshot, which is the pre-alignment           *)
(* coordinates, and the snapshot is never modified.                        *)
(***************************************************************************)
SnapshotIntact ==
    \A t \in Tiles :
       rhombPoints[t].originalPoints = findRhomb(rhombPoints[t].intersection).points

C4_RoundTripPreAlignment ==
    /\ SnapshotIntact
    /\ lastOp = "reset"
          => \A t \in Tiles : /\ rhombPoints[t].points = rhombPoints[t].originalPoints
                              /\ rhombPoints[t].points = runStart[t].points

(***************************************************************************)
(* C4 amended: the snapshot taken at generation is never modified, a reset *)
(* restores every vertex to it, and that is the pre-alignment position     *)
(* when no tile was dragged before the reset.                              *)
(***************************************************************************)
C4_ResetRestoresSnapshot ==
    /\ SnapshotIntact
    /\ lastOp = "reset"
          => \A t \in Tiles : /\ rhombPoints[t].points = rhombPoints[t].originalPoints
                              /\ dragCount = 0
                                    => rhombPoints[t].points = runStart[t].points

\* a reset after a run that moved a tile, with a drag before it
C4_Witness ==
    /\ lastOp = "reset"
    /\ dragCount > 0
    /\ Reach(seedSet) # seedSet
(***************************************************************************)
(* C5: in batch and in single-step mode the alignment engine never         *)
(* translates a tile whose locked flag is set; a locked tile that is       *)
(* reached as an unaligned neighbour keeps its vertices and is marked      *)
(* aligned and enqueued.                                                   *)
(***************************************************************************)
C5_LockedNeverTranslated ==
    [][lastOp' \in EngineOps
         => \A t \in Tiles :
               rhombPoints[t].locked
                  => /\ rhombPoints'[t].points = rhombPoints[t].points
                     /\ (lastOp' = "drawStep" /\ ~rhombPoints[t].aligned
                                              /\ rhombPoints'[t].aligned)
                           => alignmentQueue'[Len(alignmentQueue')] = t]_vars

(***************************************************************************)
(* C6: when a run starts with some tile locked, the queue is exactly the   *)
(* locked tiles in index order and each of them already has aligned =      *)
(* true; with no tile locked the queue is [0] and tile 0 is marked aligned.*)
(***************************************************************************)
C6_Seeding ==
    lastOp = "start"
       => IF LockedSet(rhombPoints) # {}
            THEN /\ {alignmentQueue[i] : i \in 1..Len(alignmentQueue)}
                       = LockedSet(rhombPoints)
                 /\ \A i \in 1..(Len(alignmentQueue) - 1) :
                       alignmentQueue[i] < alignmentQueue[i + 1]
                 /\ \A t \in LockedSet(rhombPoints) : rhombPoints[t].aligned
            ELSE /\ alignmentQueue = <<0>>
                 /\ rhombPoints[0].aligned

(***************************************************************************)
(* C7: single-step alignment terminates: while stepAlignment keeps being   *)
(* called, a run in progress leads to the queue being empty and the run    *)
(* declared complete (isAligning = false, isAligned = true), although a    *)
(* tile with k unaligned neighbours is put back into the queue k-1 times.  *)
(***************************************************************************)
C7_Terminates ==
    isAligning ~> ((~isAligning /\ isAligned /\ alignmentQueue = << >>) \/ StepNotCalled)

\* a completed run from tile 0 in which tile 0 had two unaligned neighbours
C7_Witness ==
    /\ lastOp = "drawComplete"
    /\ ~isAligning /\ isAligned /\ alignmentQueue = << >>
    /\ seedSet = {0} /\ draggedInRun = {} /\ LockedSet(runStart) = {}
    /\ Len(rhombGraph[0]) >= 2
    /\ AlignedSet(rhombPoints) = Reach({0})

(***************************************************************************)
(* C8: an alignment run, batch or single-step, never changes the vertices  *)
(* or the aligned flag of a tile that is not reachable from the seed set   *)
(* through the adjacency graph.                                            *)
(***************************************************************************)
C8_UnreachableUntouched ==
    [][lastOp' \in EngineOps \cup {"start"}
         => \A t \in Tiles \ Reach(seedSet') :
               /\ rhombPoints'[t].points = rhombPoints[t].points
               /\ rhombPoints'[t].aligned = rhombPoints[t].aligned]_vars

\* a completed run that moved a tile and left a disconnected tile behind
C8_Witness ==
    /\ lastOp \in {"drawComplete", "batch"}
    /\ Reach(seedSet) # Tiles
    /\ Reach(seedSet) # seedSet
    /\ \E t \in Reach(seedSet) : rhombPoints[t].points # runStart[t].points
    /\ \A t \in Tiles \ Reach(seedSet) :
          rhombPoints[t].points = runStart[t].points /\ ~rhombPoints[t].aligned

(***************************************************************************)
(* C9: while alignment is in progress, the engine does not write the       *)
(* vertices of a tile that was dragged during the run: the drag is not     *)
(* overwritten.                                                            *)
(***************************************************************************)
C9_DragNotOverwritten ==
    [][(isAligning /\ lastOp' \in FrameOps)
         => \A t \in draggedInRun :
               rhombPoints'[t].points = rhombPoints[t].points]_vars

(***************************************************************************)
(* C10: a reset requested with the align/reset button in any state,        *)
(* including the middle of a single-step run, leaves every tile at its     *)
(* original snapshot with aligned cleared, the queue empty and no          *)
(* alignment in progress, and no later frame moves any tile.               *)
(***************************************************************************)
C10_ResetAlwaysSafe ==
    [][/\ lastOp' \in {"reset", "toggleIgnored"}
          => /\ \A t \in Tiles :
                   /\ rhombPoints'[t].points = rhombPoints'[t].originalPoints
                   /\ ~rhombPoints'[t].aligned
             /\ alignmentQueue' = << >>
             /\ ~isAligning'
       /\ (lastOp \in {"reset", "toggleIgnored"} /\ lastOp' \in FrameOps \cup {"drawIdle"})
          => \A t \in Tiles : rhombPoints'[t].points = rhombPoints[t].points]_vars

(***************************************************************************)
(* C11: within a run a tile's aligned flag is monotone: no alignment step, *)
(* animation frame, drag, trace toggle or any handler other than an        *)
(* explicit reset sets aligned back to false.                              *)
(***************************************************************************)
C11_AlignedMonotone ==
    [][lastOp' # "reset"
         => \A t \in Tiles : rhombPoints[t].aligned => rhombPoints'[t].aligned]_vars

\* the seed tile, marked aligned when the run started, is dragged during the run
C11_Witness ==
    /\ lastOp = "mouseDragged"
    /\ isAligning
    /\ LockedSet(runStart) = {}
    /\ seedSet = {0}
    /\ draggedInRun = {0}
    /\ rhombPoints[0].aligned

(***************************************************************************)
(* C12: the alignment queue is empty whenever no run is in progress        *)
(* (isAligning = false); at the start of a run it holds exactly the seeds  *)
(* (the locked tiles once each, or tile 0 when none is locked); it is      *)
(* empty when the run is declared complete and after a reset.              *)
(***************************************************************************)
C12_QueueLifecycle ==
    /\ ~isAligning => alignmentQueue = << >>
    /\ lastOp = "start"
          => /\ isAligning
             /\ {alignmentQueue[i] : i \in 1..Len(alignmentQueue)}
                   = (IF LockedSet(rhombPoints) # {} THEN LockedSet(rhombPoints) ELSE {0})
             /\ Len(alignmentQueue)
                   = Cardinality({alignmentQueue[i] : i \in 1..Len(alignmentQueue)})
    /\ lastOp \in {"drawComplete", "reset"} => alignmentQueue = << >>

\* a run seeded with a dragged tile other than tile 0
C12_Witness ==
    /\ lastOp = "start"
    /\ LockedSet(rhombPoints) # {}
    /\ 0 \notin LockedSet(rhombPoints)
    /\ alignmentQueue # << >>
    /\ \E t \in Tiles : rhombPoints[t].points # rhombPoints[t].originalPoints

(***************************************************************************)
(* C13: adjacency symmetry.  For a generic pentagrid (no two tiles at the  *)
(* same point), if buildRhombGraph records j as a neighbour of i via       *)
(* shared line S with direction d, it records i as a neighbour of j via    *)
(* the same line S with the opposite direction.                            *)
(***************************************************************************)
\* no two tiles closer than EPSILON, the "same point" test of the graph builder
Generic ==
    \A i, j \in Tiles :
       i # j => LET dx == rhombPoints[i].intersection.x - rhombPoints[j].intersection.x
                    dy == rhombPoints[i].intersection.y - rhombPoints[j].intersection.y
                IN  Sqrt(dx * dx + dy * dy) * (EPSILON_INV \div UNIT) >= 1

C13_AdjacencySymmetry ==
    Generic =>
       \A i \in DOMAIN rhombGraph :
          \A k \in 1..Len(rhombGraph[i]) :
             \E m \in 1..Len(rhombGraph[rhombGraph[i][k].neighborIndex]) :
                LET back == rhombGraph[rhombGraph[i][k].neighborIndex][m]
                IN  /\ back.neighborIndex = i
                    /\ back.sharedLine = rhombGraph[i][k].sharedLine
                    /\ back.direction = Opposite(rhombGraph[i][k].direction)

\* a generic tiling in which some line carries three tiles or more
C13_Witness ==
    /\ lastOp = "buildRhombGraph"
    /\ Generic
    /\ \E i \in DOMAIN rhombGraph :
          /\ Len(rhombGraph[i]) = 4
          /\ \E k, m \in 1..4 :
                /\ rhombGraph[i][k].sharedLine = rhombGraph[i][m].sharedLine
                /\ rhombGraph[i][k].direction = "forward"
                /\ rhombGraph[i][m].direction = "backward"

(***************************************************************************)
(* C14: degree bound.  For every tile buildRhombGraph records, per         *)
(* defining line, at most one forward and at most one backward neighbour,  *)
(* each the nearest tile of that line on its side; hence at most 4         *)
(* neighbours, never the tile itself, and none on a line that carries no   *)
(* other tile.                                                             *)
(***************************************************************************)
\* tile j lies on grid line l
Carries(j, l) ==
    \/ rhombPoints[j].intersection.line1 = l
    \/ rhombPoints[j].intersection.line2 = l

\* squared distance between the intersections of tiles i and j
Distance2(i, j) ==
    LET dx == rhombPoints[j].intersection.x - rhombPoints[i].intersection.x
        dy == rhombPoints[j].intersection.y - rhombPoints[i].intersection.y
    IN  dx * dx + dy * dy

\* tile j seen from tile i along line l: positive ahead, negative behind
Along(i, j, l) ==
    (rhombPoints[j].intersection.x - rhombPoints[i].intersection.x) * (l.x2 - l.x1)
  + (rhombPoints[j].intersection.y - rhombPoints[i].intersection.y) * (l.y2 - l.y1)

C14_DegreeBound ==
    \A i \in DOMAIN rhombGraph :
       /\ Len(rhombGraph[i]) <= 4
       /\ \A k \in 1..Len(rhombGraph[i]) :
             LET e == rhombGraph[i][k]
                 ahead == e.direction = "forward"
             IN  /\ e.neighborIndex # i
                 /\ e.neighborIndex \in Tiles
                 /\ e.sharedLine \in {rhombPoints[i].intersection.line1,
                                      rhombPoints[i].intersection.line2}
                 /\ Carries(e.neighborIndex, e.sharedLine)
                 /\ e.direction \in {"forward", "backward"}
                 /\ (Along(i, e.neighborIndex, e.sharedLine) > 0) = ahead
                 /\ \A u \in Tiles \ {i} :
                       (Carries(u, e.sharedLine)
                          /\ (Along(i, u, e.sharedLine) > 0) = ahead)
                          => Distance2(i, e.neighborIndex) <= Distance2(i, u)
                 /\ \A m \in 1..Len(rhombGraph[i]) :
                       (m # k /\ rhombGraph[i][m].sharedLine = e.sharedLine)
                          => rhombGraph[i][m].direction # e.direction
       /\ \A l \in {rhombPoints[i].intersection.line1, rhombPoints[i].intersection.line2} :
             (\A u \in Tiles \ {i} : ~Carries(u, l))
                => \A k \in 1..Len(rhombGraph[i]) : rhombGraph[i][k].sharedLine # l

\* a tiling with a tile of degree 4, a line carrying two tiles on one side of a
\* third, and a tile alone on one of its lines
C14_Witness ==
    /\ lastOp = "buildRhombGraph"
    /\ \E i \in DOMAIN rhombGraph : Len(rhombGraph[i]) = 4
    /\ \E i \in Tiles, u \in Tiles, v \in Tiles :
          /\ Cardinality({i, u, v}) = 3
          /\ Carries(u, rhombPoints[i].intersection.line1)
          /\ Carries(v, rhombPoints[i].intersection.line1)
          /\ Along(i, u, rhombPoints[i].intersection.line1) > 0
          /\ Along(i, v, rhombPoints[i].intersection.line1) > 0
    /\ \E i \in Tiles :
          \A u \in Tiles \ {i} : ~Carries(u, rhombPoints[i].intersection.line2)

(***************************************************************************)
(* C15: the shape of a rhombus is invariant.  In every reachable state     *)
(* every tile has exactly 4 vertices, the vectors between its consecutive  *)
(* vertices equal those at creation (every write is a translation of all   *)
(* four vertices), and its four sides keep length SCALE (here to the 2%    *)
(* accuracy of the cosine table).                                          *)
(***************************************************************************)
\* the vector from vertex i to the next vertex of a vertex list, i in 1..4
Side(points, i) ==
    <<points[(i % 4) + 1][1] - points[i][1], points[(i % 4) + 1][2] - points[i][2]>>

C15_ShapeInvariant ==
    \A t \in Tiles :
       /\ Len(rhombPoints[t].points) = 4
       /\ \A i \in 1..4 :
             /\ Side(rhombPoints[t].points, i)
                   = Side(findRhomb(rhombPoints[t].intersection).points, i)
             /\ Abs(Sqrt(Side(rhombPoints[t].points, i)[1] * Side(rhombPoints[t].points, i)[1]
                       + Side(rhombPoints[t].points, i)[2] * Side(rhombPoints[t].points, i)[2])
                    - SCALE * UNIT) * 50 <= SCALE * UNIT

\* an animation frame has just written a tile, with a dragged tile and a tile
\* moved by the run both away from their original positions
C15_Witness ==
    /\ lastOp = "drawAnimate"
    /\ dragCount > 0
    /\ \E t \in Tiles : rhombPoints[t].locked
                           /\ rhombPoints[t].points # rhombPoints[t].originalPoints
    /\ \E t \in Tiles : ~rhombPoints[t].locked
                           /\ rhombPoints[t].points # rhombPoints[t].originalPoints

(***************************************************************************)
(* C16: edge matching.  When tile N is aligned to its already-aligned      *)
(* neighbour T across shared line S, after the translation N's reference   *)
(* edge (on the side opposite to the direction) coincides with T's         *)
(* reference edge (on the side of the direction): the paired vertices, v1  *)
(* with v1 and v2 with v2 in traversal order, are at the same position.    *)
(***************************************************************************)
\* a step without trace has just translated an unlocked tile
StepPlaced ==
    /\ lastOp' = "drawStep"
    /\ ~showTrace
    /\ currentlyAligning' # NULL
    /\ ~rhombPoints[currentlyAligning'].locked

\* the adjacency record the step worked on
StepData == getUnalignedAdjacentTiles(rhombPoints, rhombGraph, Head(alignmentQueue))[1]

\* T's reference edge across the line of an adjacency record of T, and the
\* reference edge of the neighbour N the record names, for the tiles rp
EdgeOfT(rp, T, data) == findEdgeOnLine(rp[T], data.sharedLine, data.direction)
EdgeOfN(rp, data) ==
    findEdgeOnLine(rp[data.neighborIndex], data.sharedLine, Opposite(data.direction))

\* v1 of N at v1 of T and v2 of N at v2 of T
EdgesPaired(rp, T, data) ==
    /\ EdgeOfT(rp, T, data).found /\ EdgeOfN(rp, data).found
    /\ EdgeOfN(rp, data).v1 = EdgeOfT(rp, T, data).v1
    /\ EdgeOfN(rp, data).v2 = EdgeOfT(rp, T, data).v2

\* the two edges are the same segment, traversed in opposite directions
EdgesCrossed(rp, T, data) ==
    /\ EdgeOfT(rp, T, data).found /\ EdgeOfN(rp, data).found
    /\ EdgeOfN(rp, data).v1 = EdgeOfT(rp, T, data).v2
    /\ EdgeOfN(rp, data).v2 = EdgeOfT(rp, T, data).v1

\* the tiles a batch run has just placed
BatchPlaced ==
    IF lastOp' = "batch"
      THEN {t \in Tiles : ~rhombPoints[t].aligned /\ rhombPoints'[t].aligned /\ t # 0}
      ELSE {}

C16_EdgeMatching ==
    [][/\ StepPlaced => EdgesPaired(rhombPoints', Head(alignmentQueue), StepData)
       /\ \A N \in BatchPlaced :
             \E T \in Tiles : \E k \in 1..Len(rhombGraph[T]) :
                /\ rhombGraph[T][k].neighborIndex = N
                /\ EdgesPaired(rhombPoints', T, rhombGraph[T][k])]_vars

(***************************************************************************)
(* C16 amended: after the translation N's reference edge and T's reference *)
(* edge are the same segment, with the vertices paired crosswise: v1 of N  *)
(* is at v2 of T and v2 of N at v1 of T, because both tiles are traversed  *)
(* in the same rotational sense.                                           *)
(***************************************************************************)
C16_EdgesCoincide ==
    [][/\ StepPlaced => EdgesCrossed(rhombPoints', Head(alignmentQueue), StepData)
       /\ \A N \in BatchPlaced :
             \E T \in Tiles : \E k \in 1..Len(rhombGraph[T]) :
                /\ rhombGraph[T][k].neighborIndex = N
                /\ EdgesCrossed(rhombPoints', T, rhombGraph[T][k])]_vars

\* a step without trace has just moved an unlocked tile onto its neighbour
C16_Witness ==
    /\ lastOp = "drawStep"
    /\ ~showTrace
    /\ currentlyAligning # NULL
    /\ ~rhombPoints[currentlyAligning].locked
    /\ rhombPoints[currentlyAligning].points # runStart[currentlyAligning].points

(***************************************************************************)
(* C17: for every gamma vector the pentagrid generator produces exactly 5  *)
(* families, family k at index k (0..4), each with exactly 2*NUM_LINES+1   *)
(* lines whose index n takes every value of -NUM_LINES..NUM_LINES once;    *)
(* generating again replaces the families instead of appending to them.    *)
(***************************************************************************)
C17_FiveFamilies ==
    lastOp # "load"
       => /\ Len(gridLines) = 5
          /\ \A f \in 1..5 :
                /\ Len(gridLines[f]) = 2 * NUM_LINES + 1
                /\ \A i \in 1..Len(gridLines[f]) : gridLines[f][i].family = f - 1
                /\ {gridLines[f][i].n : i \in 1..Len(gridLines[f])}
                      = (-NUM_LINES)..NUM_LINES

\* the families have been generated a second time
C17_Witness ==
    /\ lastOp = "regenerateGridFamilies"
    /\ Len(gridLines) = 5
    /\ GAMMAS \notin {cfg.GAMMAS : cfg \in Configs}

(***************************************************************************)
(* C18: exactly one tile is created per intersection, in intersection      *)
(* order, with aligned = false, locked = false and an original-position    *)
(* snapshot equal to its freshly computed vertices; the snapshot is a copy *)
(* (later writes to the vertices leave it alone), the perpendicularity     *)
(* check never prevents a tile from being created, and no tile is ever     *)
(* removed afterwards.                                                     *)
(***************************************************************************)
C18_OneTilePerIntersection ==
    /\ Tiles = 0..(Len(intersections) - 1)
    /\ \A t \in Tiles :
          /\ rhombPoints[t].intersection = intersections[t + 1]
          /\ rhombPoints[t].originalPoints = findRhomb(intersections[t + 1]).points
    /\ lastOp = "setup"
          => \A t \in Tiles : /\ ~rhombPoints[t].aligned
                              /\ ~rhombPoints[t].locked
                              /\ rhombPoints[t].points = rhombPoints[t].originalPoints

\* after a drag every intersection still has its tile, and the dragged tile's
\* snapshot was not moved with its vertices
C18_Witness ==
    /\ lastOp = "mouseDragged"
    /\ Len(intersections) >= 2
    /\ Cardinality(Tiles) = Len(intersections)
    /\ \E t \in Tiles : /\ rhombPoints[t].locked
                        /\ rhombPoints[t].points # rhombPoints[t].originalPoints

(***************************************************************************)
(* C19: intersect reports a crossing only when it is valid.  It returns    *)
(* "no intersection" when either segment has zero length, when the two are *)
(* parallel, or when the crossing point of the two lines lies outside      *)
(* either segment; otherwise it returns the point with line1 and line2,    *)
(* and findIntersections records one Intersection per such pair of lines   *)
(* of different families, and none for two lines of one family.            *)
(***************************************************************************)
ZeroLength(s) == s.x1 = s.x2 /\ s.y1 = s.y2

\* twice the signed area of the triangle (start of s, end of s, (px, py))
SideOf(s, px, py) == (s.x2 - s.x1) * (py - s.y1) - (s.y2 - s.y1) * (px - s.x1)

Parallel(s, t) == (s.x2 - s.x1) * (t.y2 - t.y1) - (s.y2 - s.y1) * (t.x2 - t.x1) = 0

\* the ends of each segment are not strictly on one side of the other segment
Straddle(s, t) ==
    /\ SideOf(s, t.x1, t.y1) * SideOf(s, t.x2, t.y2) <= 0
    /\ SideOf(t, s.x1, s.y1) * SideOf(t, s.x2, s.y2) <= 0

ValidCrossing(s, t) ==
    ~ZeroLength(s) /\ ~ZeroLength(t) /\ ~Parallel(s, t) /\ Straddle(s, t)

\* (px, py) is on segment s, to the unit of the coordinates
OnSegment(s, px, py) ==
    /\ Abs(SideOf(s, px, py)) <= 2 * (Abs(s.x2 - s.x1) + Abs(s.y2 - s.y1))
    /\ px >= (IF s.x1 < s.x2 THEN s.x1 ELSE s.x2) - 1
    /\ px <= (IF s.x1 < s.x2 THEN s.x2 ELSE s.x1) + 1
    /\ py >= (IF s.y1 < s.y2 THEN s.y1 ELSE s.y2) - 1
    /\ py <= (IF s.y1 < s.y2 THEN s.y2 ELSE s.y1) + 1

\* the pairs of lines of different families, in the order of the four loops
FamilyPairs(families) ==
    Flatten(Flatten([i \in 1..Len(families) |->
       [jj \in 1..(Len(families) - i) |->
          Flatten([a \in 1..Len(families[i]) |->
             [b \in 1..Len(families[i + jj]) |->
                <<families[i][a], families[i + jj][b]>>]])]]))

IsValidPair(p) == ValidCrossing(p[1], p[2])

\* every line of every family
LinesOf(families) ==
    UNION {{families[f][i] : i \in 1..Len(families[f])} : f \in 1..Len(families)}

C19_ValidCrossingsOnly ==
    /\ \A s \in LinesOf(gridLines), t \in LinesOf(gridLines) :
          IF ValidCrossing(s, t)
            THEN /\ intersect(s, t).hit
                 /\ intersect(s, t).line1 = s /\ intersect(s, t).line2 = t
                 /\ OnSegment(s, intersect(s, t).x, intersect(s, t).y)
                 /\ OnSegment(t, intersect(s, t).x, intersect(s, t).y)
            ELSE intersect(s, t) = NoIntersection
    /\ lastOp = "findIntersections"
          => /\ Len(intersections) = Len(SelectSeq(FamilyPairs(gridLines), IsValidPair))
             /\ \A i \in 1..Len(intersections) :
                   /\ intersections[i].line1
                         = SelectSeq(FamilyPairs(gridLines), IsValidPair)[i][1]
                   /\ intersections[i].line2
                         = SelectSeq(FamilyPairs(gridLines), IsValidPair)[i][2]
                   /\ intersections[i]
                         = intersect(intersections[i].line1, intersections[i].line2)

\* the two segments of the first family cross each other and only one of them
\* crosses the segment of the second family
C19_Witness ==
    /\ lastOp = "findIntersections"
    /\ Len(gridLines) = 2
    /\ Len(intersections) = 1
    /\ ValidCrossing(gridLines[1][1], gridLines[1][2])
    /\ ValidCrossing(gridLines[1][2], gridLines[2][1])
    /\ ~Parallel(gridLines[1][1], gridLines[2][1])
    /\ ~Straddle(gridLines[1][1], gridLines[2][1])

(***************************************************************************)
(* C20 as stated: in single-step mode, when the popped tile T has more     *)
(* than one unaligned neighbour, T is put back at the back of the queue    *)
(* once for each additional neighbour, after the newly aligned neighbour,  *)
(* so that T comes after the tiles that were already waiting.              *)
(***************************************************************************)
\* the unaligned neighbours of the tile at the front of the queue
FrontData == getUnalignedAdjacentTiles(rhombPoints, rhombGraph, Head(alignmentQueue))

\* a step has just popped a tile that had more than one unaligned neighbour
StepWithSeveral ==
    /\ lastOp' = "drawStep"
    /\ alignmentQueue # << >>
    /\ Len(FrontData) > 1

UnalignedAt(T) ==
    {k \in 1..Len(rhombGraph[T]) : ~rhombPoints[rhombGraph[T][k].neighborIndex].aligned}

\* the first unaligned neighbour of T in adjacency-list order, or NULL
FirstUnaligned(T) ==
    IF UnalignedAt(T) = {} THEN NULL
    ELSE rhombGraph[T][CHOOSE k \in UnalignedAt(T) :
                          \A m \in UnalignedAt(T) : k <= m].neighborIndex

C21_OneNeighbourPerStep ==
    [][lastOp' \in {"drawStep", "drawComplete"}
         => IF alignmentQueue # << >> /\ FirstUnaligned(Head(alignmentQueue)) # NULL
              THEN LET N == FirstUnaligned(Head(alignmentQueue))
                   IN  /\ \A t \in Tiles \ {N} : rhombPoints'[t] = rhombPoints[t]
                       /\ AlignedSet(rhombPoints') = AlignedSet(rhombPoints) \cup {N}
                       /\ rhombPoints'[N].locked = rhombPoints[N].locked
                       /\ currentlyAligning' = N
                       /\ currentOffset' # NullOffset
              ELSE rhombPoints' = rhombPoints]_vars

\* a step without trace has moved one neighbour of the popped tile, and another
\* neighbour of that tile is still unaligned where the run found it
C21_Witness ==
    /\ lastOp = "drawStep"
    /\ ~showTrace
    /\ currentlyAligning # NULL
    /\ rhombPoints[currentlyAligning].points # runStart[currentlyAligning].points
    /\ alignmentQueue # << >>
    /\ \E k \in UnalignedAt(Head(alignmentQueue)) :
          rhombPoints[rhombGraph[Head(alignmentQueue)][k].neighborIndex].points
             = runStart[rhombGraph[Head(alignmentQueue)][k].neighborIndex].points

(***************************************************************************)
(* C22: the angle-offset table is correct for every family difference.     *)
(* Every intersection has line1.family < line2.family, so D = line2.family *)
(* - line1.family is in 1..4 and the look-up never falls back to 0; for    *)
(* each such D, 2*D + offset(D) is a multiple of 5 (in units of PI/5), and *)
(* the rhombus built has edge(v0,v1) perpendicular to line2 and            *)
(* edge(v1,v2) perpendicular to line1.                                     *)
(***************************************************************************)
FamilyDiff(intersection) == intersection.line2.family - intersection.line1.family

\* the family differences that occur among the intersections found
DiffsFound == {FamilyDiff(intersections[i]) : i \in 1..Len(intersections)}

C22_AngleTable ==
    /\ \A D \in 1..4 : angleMap(D) # 0 /\ (2 * D + angleMap(D)) % 5 = 0
    /\ \A i \in 1..Len(intersections) :
          /\ intersections[i].line1.family < intersections[i].line2.family
          /\ FamilyDiff(intersections[i]) \in 1..4
          /\ angleMap(FamilyDiff(intersections[i])) # 0
          /\ isPerpendicular(findRhomb(intersections[i]).points, intersections[i])
    /\ \A t \in Tiles : isPerpendicular(rhombPoints[t].points, rhombPoints[t].intersection)

\* tiles have been built for intersections of every family difference
C22_Witness ==
    /\ lastOp = "generateRhombi"
    /\ DiffsFound = 1..4
    /\ Cardinality(Tiles) = Len(intersections)

(***************************************************************************)
(* C23: a wrong perpendicular-edge count is never a hard failure.  When    *)
(* findEdgeOnLine finds a number of perpendicular edges other than two it  *)
(* returns the first perpendicular edge found; when it finds none,         *)
(* calculateAlignmentOffset returns the zero offset; in every such case    *)
(* the neighbour keeps four well-defined vertices, is marked aligned and   *)
(* enqueued, and the run goes on to completion.                            *)
(***************************************************************************)
\* edge i (0..3) of a tile is perpendicular to the line: both have a length
\* and their dot product is zero
PerpTo(rhomb, line, i) ==
    LET ex == rhomb.points[((i + 1) % 4) + 1][1] - rhomb.points[i + 1][1]
        ey == rhomb.points[((i + 1) % 4) + 1][2] - rhomb.points[i + 1][2]
        lx == line.x2 - line.x1
        ly == line.y2 - line.y1
    IN  /\ ex # 0 \/ ey # 0
        /\ lx # 0 \/ ly # 0
        /\ ex * lx + ey * ly = 0

PerpSet(rhomb, line) == {i \in 0..3 : PerpTo(rhomb, line, i)}

\* what the fallback promises for a tile whose count is not two
FallbackEdge(rhomb, line, direction) ==
    IF PerpSet(rhomb, line) = {}
      THEN ~findEdgeOnLine(rhomb, line, direction).found
      ELSE LET first == CHOOSE i \in PerpSet(rhomb, line) :
                            \A j \in PerpSet(rhomb, line) : i <= j
           IN  /\ findEdgeOnLine(rhomb, line, direction).found
               /\ findEdgeOnLine(rhomb, line, direction).v1 = rhomb.points[first + 1]
               /\ findEdgeOnLine(rhomb, line, direction).v2
                     = rhomb.points[((first + 1) % 4) + 1]

\* a frame is about to call stepAlignment on a tile with an unaligned neighbour
\* while it or the neighbour does not have two edges perpendicular to the line
FallbackStep ==
    /\ lastOp' = "drawStep"
    /\ alignmentQueue # << >>
    /\ Len(FrontData) > 0
    /\ \/ Cardinality(PerpSet(rhombPoints[Head(alignmentQueue)], FrontData[1].sharedLine)) # 2
       \/ Cardinality(PerpSet(rhombPoints[FrontData[1].neighborIndex],
                              FrontData[1].sharedLine)) # 2

WellDefined(points) ==
    /\ Len(points) = 4
    /\ \A i \in 1..4 : points[i][1] \in Int /\ points[i][2] \in Int

C23_FallbackNeverFatal ==
    /\ [][FallbackStep =>
            LET T == rhombPoints[Head(alignmentQueue)]
                data == FrontData[1]
                N == data.neighborIndex
                countT == Cardinality(PerpSet(T, data.sharedLine))
                countN == Cardinality(PerpSet(rhombPoints[N], data.sharedLine))
            IN  /\ countT # 2 => FallbackEdge(T, data.sharedLine, data.direction)
                /\ countN # 2 => FallbackEdge(rhombPoints[N], data.sharedLine,
                                              Opposite(data.direction))
                /\ (countT = 0 \/ countN = 0) => currentOffset' = [x |-> 0, y |-> 0]
                /\ currentOffset' # NullOffset
                /\ WellDefined(rhombPoints'[N].points)
                /\ rhombPoints'[N].points =
                      (IF showTrace THEN rhombPoints[N].points
                       ELSE [i \in 1..4 |->
                               <<rhombPoints[N].points[i][1] + currentOffset'.x,
                                 rhombPoints[N].points[i][2] + currentOffset'.y>>])
                /\ rhombPoints'[N].aligned
                /\ alignmentQueue'[Len(alignmentQueue')] = N]_vars
    /\ isAligning ~> ((~isAligning /\ isAligned /\ alignmentQueue = << >>) \/ StepNotCalled)

\* a run has completed after a step that fell back to the first perpendicular
\* edge of both tiles and moved the neighbour by the offset between them
C23_Witness ==
    /\ lastOp = "drawComplete"
    /\ isAligned /\ ~isAligning
    /\ rhombPoints[1].aligned
    /\ Cardinality(PerpSet(runStart[0], rhombGraph[0][1].sharedLine)) \in {1, 3, 4}
    /\ Cardinality(PerpSet(runStart[1], rhombGraph[0][1].sharedLine)) \in {1, 3, 4}
    /\ rhombPoints[1].points # runStart[1].points
    /\ WellDefined(rhombPoints[1].points)

(***************************************************************************)
(* C24: manually positioned tiles become anchors.  A drag with a selected  *)
(* tile translates all four of its vertices by the same mouse delta and    *)
(* sets both locked and aligned on that tile and on no other tile; a press *)
(* and release without a drag, or a drag with no selected tile, changes no *)
(* tile's vertices or flags.                                               *)
(***************************************************************************)
\* the vertex list to is the vertex list from moved by one vector
SameDelta(from, to) ==
    /\ Len(to) = Len(from)
    /\ \A i \in 1..Len(from) :
          /\ to[i][1] - from[i][1] = to[1][1] - from[1][1]
          /\ to[i][2] - from[i][2] = to[1][2] - from[1][2]

C24_DragAnchors ==
    [][/\ (lastOp' = "mouseDragged" /\ selectedRhomb # NULL)
             => /\ SameDelta(rhombPoints[selectedRhomb].points,
                             rhombPoints'[selectedRhomb].points)
                /\ <<rhombPoints'[selectedRhomb].points[1][1]
                        - rhombPoints[selectedRhomb].points[1][1],
                     rhombPoints'[selectedRhomb].points[1][2]
                        - rhombPoints[selectedRhomb].points[1][2]>> \in DragDeltas
                /\ rhombPoints'[selectedRhomb].locked
                /\ rhombPoints'[selectedRhomb].aligned
                /\ rhombPoints'[selectedRhomb].originalPoints
                      = rhombPoints[selectedRhomb].originalPoints
                /\ \A t \in Tiles \ {selectedRhomb} : rhombPoints'[t] = rhombPoints[t]
       /\ (lastOp' = "mouseDragged" /\ selectedRhomb = NULL)
             => rhombPoints' = rhombPoints
       /\ lastOp' = "input" => rhombPoints' = rhombPoints]_vars

\* one tile has been dragged before any run: it alone is locked and aligned and
\* away from its original position
C24_Witness ==
    /\ lastOp = "mouseDragged"
    /\ ~isAligning /\ ~isAligned
    /\ selectedRhomb # NULL
    /\ LockedSet(rhombPoints) = {selectedRhomb}
    /\ AlignedSet(rhombPoints) = {selectedRhomb}
    /\ SameDelta(rhombPoints[selectedRhomb].originalPoints, rhombPoints[selectedRhomb].points)
    /\ rhombPoints[selectedRhomb].points # rhombPoints[selectedRhomb].originalPoints
    /\ \A t \in Tiles \ {selectedRhomb} :
          rhombPoints[t].points = rhombPoints[t].originalPoints

(***************************************************************************)
(* C25: animation state is always consistent.  Whenever a frame reads the  *)
(* animation start positions (the interpolation branch of draw, or         *)
(* drawMovementPath with showTrace true, currentlyAligning not null and    *)
(* currentOffset not null), animationStartPositions is not null and holds  *)
(* the start positions of the tile currentlyAligning, also when the        *)
(* neighbour reached is locked or the offset was applied at once in        *)
(* non-trace mode.                                                         *)
(***************************************************************************)
\* the next frame takes the interpolation branch of draw
InterpolationReads ==
    /\ looping /\ isAligning
    /\ showTrace /\ currentlyAligning # NULL
    /\ visualizationProgress < visualizationFrames

\* the frame that has just run ended with drawMovementPath past its early return
MovementPathReads ==
    /\ lastOp \in FrameOps \cup {"drawIdle"}
    /\ showTrace /\ currentlyAligning # NULL /\ currentOffset # NullOffset

\* animationStartPositions is where the tile was when its animation began: the
\* tile is there plus the part of the offset applied so far, unless dragged since
HoldsStartPositions ==
    /\ animationStartPositions # NullPositions
    /\ currentlyAligning \notin draggedInRun
          => \A i \in 1..4 :
                /\ rhombPoints[currentlyAligning].points[i][1]
                      = animationStartPositions[i][1]
                        + (currentOffset.x * visualizationProgress) \div visualizationFrames
                /\ rhombPoints[currentlyAligning].points[i][2]
                      = animationStartPositions[i][2]
                        + (currentOffset.y * visualizationProgress) \div visualizationFrames

C25_AnimationConsistent ==
    (InterpolationReads \/ MovementPathReads) => HoldsStartPositions

(***************************************************************************)
(* C26: the final positions of a single-step run do not depend on the      *)
(* trace checkbox.  Under any toggles of the checkbox between frames,      *)
(* every non-locked tile the run aligns ends exactly at its start position *)
(* plus the offset computed for it: without trace the step applies the     *)
(* offset at once, with trace the step records the start position and the  *)
(* frame that ends the tile's animation leaves it at start plus offset,    *)
(* never at an interpolated position in between.  The engine writes no     *)
(* tile after its animation has ended, so the position holds at completion.*)
(***************************************************************************)
\* the vertex list moved by an offset
Moved(points, offset) ==
    [i \in 1..Len(points) |-> <<points[i][1] + offset.x, points[i][2] + offset.y>>]

\* a frame ends the animation of the tile currentlyAligning, started with trace
AnimationEnds ==
    /\ lastOp' \in FrameOps
    /\ currentlyAligning # NULL
    /\ animationStartPositions # NullPositions
    /\ animationStartPositions' # animationStartPositions
    /\ ~rhombPoints[currentlyAligning].locked

C26_TraceIndependent ==
    [][/\ (lastOp' = "drawStep" /\ currentlyAligning' # NULL
             /\ ~rhombPoints[currentlyAligning'].aligned
             /\ ~rhombPoints[currentlyAligning'].locked)
          => IF showTrace
               THEN /\ rhombPoints'[currentlyAligning'].points
                          = rhombPoints[currentlyAligning'].points
                    /\ animationStartPositions' = rhombPoints[currentlyAligning'].points
               ELSE rhombPoints'[currentlyAligning'].points
                       = Moved(rhombPoints[currentlyAligning'].points, currentOffset')
       /\ AnimationEnds
          => rhombPoints'[currentlyAligning].points
                = Moved(animationStartPositions, currentOffset)]_vars

(***************************************************************************)
(* C27: in every state of a single-step run, every index in the alignment  *)
(* queue refers to a tile whose aligned flag is true; this holds for the   *)
(* seeds too, including runs started after an earlier align/reset cycle    *)
(* with locked tiles.                                                      *)
(***************************************************************************)
C27_QueuedAreAligned ==
    \A i \in 1..Len(alignmentQueue) :
       /\ alignmentQueue[i] \in Tiles
       /\ rhombPoints[alignmentQueue[i]].aligned

(***************************************************************************)
(* C28: within one alignment run each tile is assigned an alignment offset *)
(* and enqueued as a newly aligned neighbour at most once, so the engine   *)
(* translates it by at most one offset per run, even though its reference  *)
(* tile may be taken from the queue several times.  A step picks only a    *)
(* tile that is not aligned, leaves it aligned and enqueues it once; no    *)
(* step of a run clears the flag; a frame writes no tile other than the    *)
(* one picked or being animated; the batch loop pushes no tile twice.      *)
(***************************************************************************)
\* how many times tile t occurs in a queue
Occurrences(queue, t) == Cardinality({i \in 1..Len(queue) : queue[i] = t})

\* a frame's call of stepAlignment assigns an offset to a neighbour
StepPicks ==
    /\ lastOp' = "drawStep"
    /\ alignmentQueue # << >>
    /\ Len(FrontData) > 0

RECURSIVE BatchPushes(_, _, _)
\* the indices alignRhombuses pushes, in order, from a queue on
BatchPushes(rp, graph, queue) ==
    IF queue = << >> THEN << >>
    ELSE LET step == AlignNeighbors(rp, Head(queue),
                                    getUnalignedAdjacentTiles(rp, graph, Head(queue)))
         IN  step[2] \o BatchPushes(step[1], graph, Tail(queue) \o step[2])

C28_OneOffsetPerRun ==
    [][/\ StepPicks
          => /\ currentlyAligning' = FrontData[1].neighborIndex
             /\ ~rhombPoints[currentlyAligning'].aligned
             /\ rhombPoints'[currentlyAligning'].aligned
             /\ Occurrences(alignmentQueue', currentlyAligning')
                   = Occurrences(Tail(alignmentQueue), currentlyAligning') + 1
       /\ (isAligning /\ isAligning')
          => \A t \in Tiles : rhombPoints[t].aligned => rhombPoints'[t].aligned
       /\ lastOp' \in FrameOps
          => \A t \in Tiles :
                rhombPoints'[t].points # rhombPoints[t].points
                   => \/ StepPicks /\ t = currentlyAligning'
                      \/ lastOp' = "drawAnimate" /\ t = currentlyAligning
       /\ lastOp' = "batch"
          => LET pushes == BatchPushes([rhombPoints EXCEPT ![0].aligned = TRUE],
                                       rhombGraph, <<0>>)
             IN  /\ \A t \in Tiles : Occurrences(pushes, t) <= 1
                 /\ \A t \in Tiles :
                       rhombPoints'[t].points # rhombPoints[t].points
                          => Occurrences(pushes, t) = 1]_vars

\* a run from tile 0 has completed after tile 0 was taken from the queue for
\* each of its two neighbours, and each tile it reached was moved
C28_Witness ==
    /\ lastOp = "drawComplete"
    /\ seedSet = {0}
    /\ LockedSet(rhombPoints) = {}
    /\ Len(rhombGraph[0]) >= 2
    /\ \A t \in Reach({0}) \ {0} :
          rhombPoints[t].aligned /\ rhombPoints[t].points # runStart[t].points

(***************************************************************************)
(* C29: for every adjacency record {neighborIndex, sharedLine, direction}  *)
(* that buildRhombGraph produces over tiles built by findRhomb, both the   *)
(* tile and its neighbour have exactly two edges perpendicular to          *)
(* sharedLine, and those two edges have different projections onto the     *)
(* line direction; so findEdgeOnLine never takes its fallback branch and   *)
(* always returns the edge on the requested side.                          *)
(***************************************************************************)
\* the edges (0..3) that pass the perpendicularity test of findEdgeOnLine
TestedPerp(rhomb, line) ==
    {i \in 0..3 :
        IsRightAngle(getAngleBetweenLines(
            rhomb.points[i + 1][1], rhomb.points[i + 1][2],
            rhomb.points[((i + 1) % 4) + 1][1], rhomb.points[((i + 1) % 4) + 1][2],
            line.x1, line.y1, line.x2, line.y2))}

\* the centre of edge i seen from the intersection of the tile, along the line
\* (twice the projection times the length of the line)
CentreAlong(rhomb, line, i) ==
    (rhomb.points[i + 1][1] + rhomb.points[((i + 1) % 4) + 1][1]
        - 2 * rhomb.intersection.x) * (line.x2 - line.x1)
  + (rhomb.points[i + 1][2] + rhomb.points[((i + 1) % 4) + 1][2]
        - 2 * rhomb.intersection.y) * (line.y2 - line.y1)

\* the tile has two perpendicular edges, one ahead of its intersection and one
\* behind, and findEdgeOnLine returns the one on the side asked for
TwoSided(rhomb, line, direction) ==
    /\ Cardinality(TestedPerp(rhomb, line)) = 2
    /\ TestedPerp(rhomb, line) = PerpSet(rhomb, line)
    /\ \E i, j \in PerpSet(rhomb, line) :
          /\ CentreAlong(rhomb, line, i) > 0
          /\ CentreAlong(rhomb, line, j) < 0
          /\ findEdgeOnLine(rhomb, line, direction).found
          /\ LET side == IF direction = "forward" THEN i ELSE j
             IN  /\ findEdgeOnLine(rhomb, line, direction).v1 = rhomb.points[side + 1]
                 /\ findEdgeOnLine(rhomb, line, direction).v2
                       = rhomb.points[((side + 1) % 4) + 1]

C29_TwoPerpendicularEdges ==
    lastOp = "buildRhombGraph"
       => \A i \in DOMAIN rhombGraph :
             \A k \in 1..Len(rhombGraph[i]) :
                /\ TwoSided(rhombPoints[i], rhombGraph[i][k].sharedLine,
                            rhombGraph[i][k].direction)
                /\ TwoSided(rhombPoints[rhombGraph[i][k].neighborIndex],
                            rhombGraph[i][k].sharedLine,
                            Opposite(rhombGraph[i][k].direction))

\* a graph over tiles of every family difference, one of them with four
\* neighbours
C29_Witness ==
    /\ lastOp = "buildRhombGraph"
    /\ DiffsFound = 1..4
    /\ \E i \in DOMAIN rhombGraph :
          /\ Len(rhombGraph[i]) = 4
          /\ {rhombGraph[i][k].direction : k \in 1..4} = {"forward", "backward"}

(***************************************************************************)
(* C30: reference-edge selection is translation-invariant.  The edge (pair *)
(* of vertex indices) returned by findEdgeOnLine(rhomb, line, direction)   *)
(* is the same after all four vertices of the tile are translated by any   *)
(* vector, by a drag or an earlier alignment, while rhomb.intersection     *)
(* stays at the original crossing point: both candidate edges' projections *)
(* shift by the same amount.                                               *)
(***************************************************************************)
\* the index (0..3) of the edge findEdgeOnLine returns, or NULL
EdgeIndex(rhomb, line, direction) ==
    LET edge == findEdgeOnLine(rhomb, line, direction)
        at == {i \in 0..3 : /\ edge.v1 = rhomb.points[i + 1]
                            /\ edge.v2 = rhomb.points[((i + 1) % 4) + 1]}
    IN  IF ~edge.found \/ at = {} THEN NULL ELSE CHOOSE i \in at : TRUE

\* the tile where findRhomb put it
AtCreation(rhomb) == [rhomb EXCEPT !.points = rhomb.originalPoints]

C30_EdgeChoiceInvariant ==
    \A t \in Tiles :
       /\ rhombPoints[t].intersection = intersections[t + 1]
       /\ \A line \in {rhombPoints[t].intersection.line1,
                       rhombPoints[t].intersection.line2} :
             \A direction \in {"forward", "backward"} :
                /\ EdgeIndex(AtCreation(rhombPoints[t]), line, direction) # NULL
                /\ EdgeIndex(rhombPoints[t], line, direction)
                      = EdgeIndex(AtCreation(rhombPoints[t]), line, direction)

\* after an alignment one tile is where a far drag left it, beyond its own
\* size from its intersection, and another where an alignment offset put it
C30_Witness ==
    /\ lastOp = "batch"
    /\ \E t \in LockedSet(rhombPoints) :
          \/ Abs(rhombPoints[t].points[1][1] - rhombPoints[t].originalPoints[1][1])
                > SCALE * UNIT
          \/ Abs(rhombPoints[t].points[1][2] - rhombPoints[t].originalPoints[1][2])
                > SCALE * UNIT
    /\ \E t \in Tiles \ LockedSet(rhombPoints) :
          /\ rhombPoints[t].aligned
          /\ rhombPoints[t].points # rhombPoints[t].originalPoints

====
